---------------------------- MODULE Spec2Model ----------------------------
(***************************************************************************)
(* Model of rt_db: a service that mirrors tag readings of a SQL Server     *)
(* source into a DuckDB wide table (ts_wide: one row per timestamp, one    *)
(* column per tag), src/src/{database,data_source,sync_service,main}.rs.   *)
(*                                                                         *)
(* Strings are sequences of one-character strings, so that trimming and    *)
(* column-name sanitization are computed character by character.  Time is  *)
(* an integer number of ticks, TicksPerMs ticks to the millisecond, so    *)
(* that the formatting of a timestamp (to the millisecond or the second)   *)
(* is a truncation and not the identity.  A DOUBLE is a natural number     *)
(* (0 is 0.0) and NULL the cell without value.                             *)
(***************************************************************************)
EXTENDS Integers, Sequences, FiniteSets, TLC

\* ------------------------------------------------------------------ time
TicksPerMs == 2
SecTicks == 1000 * TicksPerMs
HourTicks == 3600 * SecTicks
DayTicks == 24 * HourTicks

\* chrono's format("%Y-%m-%d %H:%M:%S%.3f"): the instant cut to the millisecond.
FormatMs(t) == t - (t % TicksPerMs)

\* chrono's format("%Y-%m-%d %H:%M:%S"): the instant cut to the second.
FormatSec(t) == t - (t % SecTicks)

\* ------------------------------------------------------------- characters
Digits == {"0", "1", "2", "3", "4", "5", "6", "7", "8", "9"}
Letters == {"A", "B", "C", "D", "T", "a", "b", "e", "g", "i", "k", "m", "n", "o", "t", "u", "w"}

\* char::is_alphanumeric on the characters of the model's alphabet
IsAlphanumeric(c) == c \in Letters \cup Digits

\* char::is_ascii_digit
IsAsciiDigit(c) == c \in Digits

\* str::trim_start_matches and str::trim_end_matches
RECURSIVE TrimStart(_, _)
TrimStart(s, c) == IF s # <<>> /\ Head(s) = c THEN TrimStart(Tail(s), c) ELSE s

RECURSIVE TrimEnd(_, _)
TrimEnd(s, c) ==
    IF s # <<>> /\ s[Len(s)] = c THEN TrimEnd(SubSeq(s, 1, Len(s) - 1), c) ELSE s

\* str::trim_matches(c)
TrimMatches(s, c) == TrimEnd(TrimStart(s, c), c)

\* str::trim: the name without its leading and trailing whitespace
Trim(s) == TrimMatches(s, " ")

KeyColumn == <<"D", "a", "t", "e", "T", "i", "m", "e">>
TagPrefix == <<"t", "a", "g", "_">>
UnknownTag == <<"u", "n", "k", "n", "o", "w", "n", "_", "t", "a", "g">>

\* sanitize_column_name without the trimming of the underscores
sanitize_column_name_untrimmed(tag_name) ==
    LET mapped == [i \in 1..Len(tag_name) |->
                      IF IsAlphanumeric(tag_name[i]) \/ tag_name[i] = "_"
                      THEN tag_name[i] ELSE "_"]
        prefixed == IF mapped # <<>> /\ IsAsciiDigit(mapped[1])
                    THEN TagPrefix \o mapped ELSE mapped
    IN  IF prefixed = <<>> THEN UnknownTag ELSE prefixed

\* sanitize_column_name without the prefix before a leading digit
sanitize_column_name_unprefixed(tag_name) ==
    LET mapped == [i \in 1..Len(tag_name) |->
                      IF IsAlphanumeric(tag_name[i]) \/ tag_name[i] = "_"
                      THEN tag_name[i] ELSE "_"]
        trimmed == TrimMatches(mapped, "_")
    IN  IF trimmed = <<>> THEN UnknownTag ELSE trimmed

\* DatabaseManager::sanitize_column_name
sanitize_column_name(tag_name) ==
    LET mapped == [i \in 1..Len(tag_name) |->
                      IF IsAlphanumeric(tag_name[i]) \/ tag_name[i] = "_"
                      THEN tag_name[i] ELSE "_"]
        trimmed == TrimMatches(mapped, "_")
        prefixed == IF trimmed # <<>> /\ IsAsciiDigit(trimmed[1])
                    THEN TagPrefix \o trimmed ELSE trimmed
    IN  IF prefixed = <<>> THEN UnknownTag ELSE prefixed

SanitizeAll(tags) == {sanitize_column_name(t) : t \in tags}

\* ------------------------------------------------------------- the store
NULL == 0 - 1

\* Option<DateTime<Utc>>::None
None == 0 - 1

DefaultValue == 0
BATCH_SIZE == 1000

RECURSIVE SortedSeq(_)
SortedSeq(S) ==
    IF S = {} THEN <<>>
    ELSE LET m == CHOOSE x \in S : \A y \in S : x <= y
         IN  <<m>> \o SortedSeq(S \ {m})


MaxOf(S) == CHOOSE x \in S : \A y \in S : y <= x

\* A store is [columns, rows, known_tags]: the columns of ts_wide (the key
\* column included), its rows (key -> column -> value) and the manager's set
\* of known tags.  An operation yields the set of its possible outcomes:
\* the store it leaves, ok (the Result), and injected (the failure, if any,
\* came from the store being unavailable and not from the statement itself).
Outcome(columns, rows, known_tags, ok, injected) ==
    [columns |-> columns, rows |-> rows, known_tags |-> known_tags,
     ok |-> ok, injected |-> injected]

TagColumns(columns) == columns \ {KeyColumn}

\* ALTER TABLE ts_wide ADD COLUMN c DOUBLE: every stored row gets NULL in c.
AlterAddColumns(rows, oldColumns, newColumns) ==
    [k \in DOMAIN rows |->
        [c \in TagColumns(oldColumns \cup newColumns) |->
            IF c \in oldColumns THEN rows[k][c] ELSE NULL]]

\* add_columns_to_wide_table with the bug of adding the column of every tag
\* anew (DROP COLUMN, ADD COLUMN) whether or not the table has it
add_columns_recreating(s, tags) ==
    LET kept == s.columns \ (SanitizeAll(tags) \ {KeyColumn})
    IN  {Outcome(s.columns \cup SanitizeAll(tags),
                 AlterAddColumns(s.rows, kept, SanitizeAll(tags)),
                 s.known_tags \cup tags, TRUE, FALSE),
         Outcome(s.columns, s.rows, s.known_tags, FALSE, TRUE)}

\* DatabaseManager::add_columns_to_wide_table.  The existing columns are read
\* once (DESCRIBE), the tags are recorded as known, then every tag whose
\* column is not among the columns read gets an ALTER TABLE, in the set's
\* iteration order.  An ALTER fails when its column was added earlier in the
\* same loop or when the store is unavailable; the columns added before the
\* failure stay.
add_columns_to_wide_table(s, tags) ==
    LET known == s.known_tags \cup tags
        toAdd == {t \in tags : sanitize_column_name(t) \notin s.columns}
        distinct(P) == Cardinality(SanitizeAll(P)) = Cardinality(P)
        after(P) == Outcome(s.columns \cup SanitizeAll(P),
                            AlterAddColumns(s.rows, s.columns, SanitizeAll(P)),
                            known, TRUE, FALSE)
        done == IF distinct(toAdd) THEN {after(toAdd)} ELSE {}
        collided == {[after(P) EXCEPT !.ok = FALSE] :
                        P \in {Q \in SUBSET toAdd : distinct(Q) /\
                                 \E f \in toAdd \ Q :
                                    sanitize_column_name(f) \in SanitizeAll(Q)}}
        unavailable == {[after(P) EXCEPT !.ok = FALSE, !.injected = TRUE] :
                        P \in {Q \in SUBSET toAdd : distinct(Q) /\ Q # toAdd}}
        noConnection == {Outcome(s.columns, s.rows, s.known_tags, FALSE, TRUE)}
    IN  done \cup collided \cup unavailable \cup noConnection

\* The value bound for a tag's placeholder: tag_values.get(tag).unwrap_or(&0.0)
ParamValue(tag_values, tag) ==
    IF tag \in DOMAIN tag_values THEN tag_values[tag] ELSE DefaultValue

\* UpsertRow with the bug of adding the new value to the one stored
UpsertRowAccumulating(rows, columns, key, listed, tag_values) ==
    [c \in TagColumns(columns) |->
        LET old == IF key \in DOMAIN rows THEN rows[key][c] ELSE NULL
            new == ParamValue(tag_values,
                              CHOOSE t \in listed : sanitize_column_name(t) = c)
        IN  IF c \in SanitizeAll(listed)
            THEN (IF old = NULL THEN new ELSE old + new)
            ELSE old]

\* INSERT OR REPLACE INTO ts_wide (DateTime, <listed>) of one row, as DuckDB
\* executes it (ON CONFLICT DO UPDATE SET of the listed columns): a row with
\* the key keeps its other columns, a new row has NULL in them.
UpsertRow(rows, columns, key, listed, tag_values) ==
    [c \in TagColumns(columns) |->
        IF c \in SanitizeAll(listed)
        THEN ParamValue(tag_values,
                        CHOOSE t \in listed : sanitize_column_name(t) = c)
        ELSE IF key \in DOMAIN rows THEN rows[key][c] ELSE NULL]

\* One INSERT OR REPLACE statement of insert_wide_data: the rows of one chunk.
\* The statement fails as a whole when a column is listed twice, is not a
\* column of the table, or two of its rows have the same key.
InsertStatement(rows, columns, chunk, grouped_data, all_tags) ==
    LET keys == {FormatMs(chunk[i]) : i \in 1..Len(chunk)}
        valid == /\ Cardinality(SanitizeAll(all_tags) \cup {KeyColumn})
                       = Cardinality(all_tags) + 1
                 /\ SanitizeAll(all_tags) \subseteq columns
                 /\ Cardinality(keys) = Len(chunk)
        src(k) == CHOOSE i \in 1..Len(chunk) : FormatMs(chunk[i]) = k
    IN  IF valid
        THEN [ok |-> TRUE,
              rows |-> [k \in DOMAIN rows \cup keys |->
                          IF k \in keys
                          THEN UpsertRow(rows, columns, k, all_tags,
                                         grouped_data[chunk[src(k)]])
                          ELSE rows[k]]]
        ELSE [ok |-> FALSE, rows |-> rows]

\* data_rows.chunks(BATCH_SIZE): the k-th chunk of the sorted rows
ChunkOf(data_rows, k) ==
    SubSeq(data_rows, (k - 1) * BATCH_SIZE + 1,
           IF k * BATCH_SIZE < Len(data_rows) THEN k * BATCH_SIZE ELSE Len(data_rows))

NumChunks(data_rows) == (Len(data_rows) + BATCH_SIZE - 1) \div BATCH_SIZE

\* The statements of chunks k..n in turn, stopping at the first that fails
\* (failAt is the chunk at which the store is unavailable, 0 for none).
RECURSIVE InsertChunks(_, _, _, _, _, _, _)
InsertChunks(rows, columns, data_rows, grouped_data, all_tags, k, failAt) ==
    IF k > NumChunks(data_rows) THEN [ok |-> TRUE, rows |-> rows, injected |-> FALSE]
    ELSE IF k = failAt THEN [ok |-> FALSE, rows |-> rows, injected |-> TRUE]
    ELSE LET r == InsertStatement(rows, columns, ChunkOf(data_rows, k),
                                  grouped_data, all_tags)
         IN  IF r.ok
             THEN InsertChunks(r.rows, columns, data_rows, grouped_data,
                               all_tags, k + 1, failAt)
             ELSE [ok |-> FALSE, rows |-> rows, injected |-> FALSE]

\* DatabaseManager::insert_wide_data
insert_wide_data(s, grouped_data, all_tags) ==
    IF DOMAIN grouped_data = {}
    THEN {Outcome(s.columns, s.rows, s.known_tags, TRUE, FALSE)}
    ELSE LET data_rows == SortedSeq(DOMAIN grouped_data)
         IN  {LET r == InsertChunks(s.rows, s.columns, data_rows, grouped_data,
                                    all_tags, 1, failAt)
              IN  Outcome(s.columns, r.rows, s.known_tags, r.ok, r.injected) :
                  failAt \in 0..NumChunks(data_rows)}

\* GroupByTimestamp with the bug of keeping the first record of a timestamp
\* and tag (entry().or_insert in place of insert)
GroupByTimestampKeepingFirst(records) ==
    LET idx == 1..Len(records)
        times == {records[i].timestamp : i \in idx}
        tagsAt(ts) == {records[i].tag_name : i \in {j \in idx : records[j].timestamp = ts}}
        first(ts, tag) == CHOOSE i \in idx :
                             /\ records[i].timestamp = ts /\ records[i].tag_name = tag
                             /\ \A j \in 1..(i - 1) : ~(records[j].timestamp = ts
                                                        /\ records[j].tag_name = tag)
    IN  [ts \in times |-> [tag \in tagsAt(ts) |-> records[first(ts, tag)].value]]

\* The grouping loop of convert_and_insert_wide: one map per timestamp, a
\* later record of the same timestamp and tag replacing an earlier one.
GroupByTimestamp(records) ==
    LET idx == 1..Len(records)
        times == {records[i].timestamp : i \in idx}
        tagsAt(ts) == {records[i].tag_name : i \in {j \in idx : records[j].timestamp = ts}}
        last(ts, tag) == MaxOf({i \in idx : records[i].timestamp = ts
                                              /\ records[i].tag_name = tag})
    IN  [ts \in times |-> [tag \in tagsAt(ts) |-> records[last(ts, tag)].value]]

AllTags(records) == {records[i].tag_name : i \in 1..Len(records)}

\* AddThenInsertSteps with the bug of writing before the columns are added
InsertThenAddSteps(s, grouped_data, all_tags) ==
    UNION {IF i.ok
           THEN {[out |-> a, upsert |-> TRUE, at_upsert |-> s.columns,
                  add_result |-> IF a.ok THEN "Ok" ELSE "Err"] :
                    a \in add_columns_to_wide_table(i, all_tags)}
           ELSE {[out |-> i, upsert |-> TRUE, at_upsert |-> s.columns,
                  add_result |-> "none"]} :
              i \in insert_wide_data(s, grouped_data, all_tags)}

\* AddThenInsertSteps with the bug of logging an error of
\* add_columns_to_wide_table and going on to the INSERT statements
AddThenInsertIgnoringError(s, grouped_data, all_tags) ==
    UNION {{[out |-> [i EXCEPT !.ok = i.ok /\ a.ok], upsert |-> TRUE,
             at_upsert |-> a.columns,
             add_result |-> IF a.ok THEN "Ok" ELSE "Err"] :
                i \in insert_wide_data(a, grouped_data, all_tags)} :
              a \in add_columns_to_wide_table(s, all_tags)}

\* add_columns_to_wide_table(all_tags)? ; insert_wide_data(grouped, all_tags)?
\* Each outcome with what the two calls did: add_result, what the one call of
\* add_columns_to_wide_table returned; upsert, whether the INSERT statements
\* were reached; and at_upsert, the columns the table had then.
AddThenInsertSteps(s, grouped_data, all_tags) ==
    UNION {IF a.ok
           THEN {[out |-> i, upsert |-> TRUE, at_upsert |-> a.columns,
                  add_result |-> "Ok"] :
                    i \in insert_wide_data(a, grouped_data, all_tags)}
           ELSE {[out |-> a, upsert |-> FALSE, at_upsert |-> {},
                  add_result |-> "Err"]} :
              a \in add_columns_to_wide_table(s, all_tags)}

\* The outcomes of the two calls
AddThenInsert(s, grouped_data, all_tags) ==
    {x.out : x \in AddThenInsertSteps(s, grouped_data, all_tags)}

\* DatabaseManager::convert_and_insert_wide
convert_and_insert_wide(s, records) ==
    IF records = <<>>
    THEN {Outcome(s.columns, s.rows, s.known_tags, TRUE, FALSE)}
    ELSE AddThenInsert(s, GroupByTimestamp(records), AllTags(records))

\* DatabaseManager::append_latest_tagdb_data: every record under one
\* timestamp, the current time plus eight hours.
BeijingOffsetHours == 8
AppendSteps(s, records, utcNow) ==
    IF records = <<>>
    THEN {[out |-> Outcome(s.columns, s.rows, s.known_tags, TRUE, FALSE),
           upsert |-> FALSE, at_upsert |-> {}, add_result |-> "none"]}
    ELSE LET current_time == utcNow + BeijingOffsetHours * HourTicks
             idx == 1..Len(records)
             tag_values == [tag \in AllTags(records) |->
                              records[MaxOf({i \in idx : records[i].tag_name = tag})].value]
             grouped_data == [ts \in {current_time} |-> tag_values]
         IN  AddThenInsertSteps(s, grouped_data, AllTags(records))

append_latest_tagdb_data(s, records, utcNow) ==
    {x.out : x \in AppendSteps(s, records, utcNow)}

\* handle_tag_changes with the bug of dropping the columns of the removed tags
handle_tag_changes_dropping(s, added_tags, removed_tags) ==
    LET afterAdded ==
            IF added_tags = {}
            THEN {Outcome(s.columns, s.rows, s.known_tags, TRUE, FALSE)}
            ELSE {IF a.ok THEN [a EXCEPT !.known_tags = @ \cup added_tags] ELSE a :
                     a \in add_columns_to_wide_table(s, added_tags)}
        kept(a) == a.columns \ (SanitizeAll(removed_tags) \ {KeyColumn})
    IN  {IF a.ok
         THEN Outcome(kept(a),
                      [k \in DOMAIN a.rows |->
                          [c \in TagColumns(kept(a)) |-> a.rows[k][c]]],
                      a.known_tags \ removed_tags, TRUE, FALSE)
         ELSE a : a \in afterAdded}

\* DatabaseManager::handle_tag_changes: the added tags get their columns and
\* become known (an error returns before the removed tags are looked at);
\* the removed tags only leave the known set.
handle_tag_changes(s, added_tags, removed_tags) ==
    LET afterAdded ==
            IF added_tags = {}
            THEN {Outcome(s.columns, s.rows, s.known_tags, TRUE, FALSE)}
            ELSE {IF a.ok THEN [a EXCEPT !.known_tags = @ \cup added_tags] ELSE a :
                     a \in add_columns_to_wide_table(s, added_tags)}
    IN  {IF a.ok THEN [a EXCEPT !.known_tags = @ \ removed_tags] ELSE a :
            a \in afterAdded}

\* UPDATE ts_wide SET c = NULL, for every column of cols
NullColumns(rows, cols) ==
    [k \in DOMAIN rows |-> [c \in DOMAIN rows[k] |->
                              IF c \in cols THEN NULL ELSE rows[k][c]]]

\* DatabaseManager::cleanup_removed_tag_data: every removed tag whose column
\* exists has the column set to NULL in all rows, tag by tag; a failing
\* statement (the store unavailable, or the key column set to NULL) leaves
\* the columns of the tags before it cleared.
cleanup_removed_tag_data(s, removed_tags) ==
    LET present == {t \in removed_tags : sanitize_column_name(t) \in s.columns}
        keyTags == {t \in present : sanitize_column_name(t) = KeyColumn}
        after(P, ok, injected) ==
            Outcome(s.columns, NullColumns(s.rows, SanitizeAll(P)), s.known_tags,
                    ok, injected)
    IN  IF removed_tags = {}
        THEN {Outcome(s.columns, s.rows, s.known_tags, TRUE, FALSE)}
        ELSE (IF keyTags = {} \/ DOMAIN s.rows = {}
              THEN {after(present \ keyTags, TRUE, FALSE)} ELSE {})
             \cup {after(P, FALSE, FALSE) :
                     P \in {Q \in SUBSET (present \ keyTags) :
                              keyTags # {} /\ DOMAIN s.rows # {}}}
             \cup {after(P, FALSE, TRUE) :
                     P \in {Q \in SUBSET (present \ keyTags) : Q # present}}
             \cup {Outcome(s.columns, s.rows, s.known_tags, FALSE, TRUE)}

\* DELETE FROM ts_wide WHERE DateTime < cutoff
DeleteBefore(rows, cutoff) ==
    [k \in {j \in DOMAIN rows : ~(j < cutoff)} |-> rows[k]]

\* DatabaseManager::delete_data_before_time: the cutoff is bound as the
\* string of its millisecond.
delete_data_before_time(s, cutoff_time) ==
    {Outcome(s.columns, DeleteBefore(s.rows, FormatMs(cutoff_time)), s.known_tags,
             TRUE, FALSE),
     Outcome(s.columns, s.rows, s.known_tags, FALSE, TRUE)}

\* DatabaseManager::delete_data_older_than_days: the cutoff, now minus the
\* days, is bound as the string of its second.
CutoffOfDays(utcNow, days) == utcNow - days * DayTicks

delete_data_older_than_days(s, days, utcNow) ==
    {Outcome(s.columns, DeleteBefore(s.rows, FormatSec(CutoffOfDays(utcNow, days))),
             s.known_tags, TRUE, FALSE),
     Outcome(s.columns, s.rows, s.known_tags, FALSE, TRUE)}
\* DatabaseManager::get_record_count: SELECT COUNT(*) FROM ts_wide
get_record_count(s) == Cardinality(DOMAIN s.rows)

\* DatabaseManager::get_latest_timestamp: SELECT MAX(DateTime) read as an
\* Option<String>.  Of an empty table the maximum is NULL and the result
\* Ok(None).  Otherwise either the driver refuses to read a TIMESTAMP as a
\* string, which is logged and answered Ok(None), or it yields the text and
\* DateTime::parse_from_str, given formats without a time zone, fails on it
\* and the error is returned: which one depends on the driver's build.
get_latest_timestamp(s) ==
    IF DOMAIN s.rows = {}
    THEN {[ok |-> TRUE, value |-> None]}
    ELSE {[ok |-> TRUE, value |-> None], [ok |-> FALSE, value |-> None]}

\* detect_tag_changes with the two differences taken the wrong way round
detect_tag_changes_swapped(source_names, known_tags) ==
    LET current_tags == {Trim(n) : n \in source_names}
    IN  [added_tags |-> known_tags \ current_tags,
         removed_tags |-> current_tags \ known_tags,
         current_tags |-> current_tags]

\* SqlServerDataSource::detect_tag_changes, once the query has returned the
\* distinct tag names: the names are trimmed, then compared with the known.
detect_tag_changes(source_names, known_tags) ==
    LET current_tags == {Trim(n) : n \in source_names}
    IN  [added_tags |-> current_tags \ known_tags,
         removed_tags |-> known_tags \ current_tags,
         current_tags |-> current_tags]

\* SyncService::cleanup_old_data: the retention trim of three days, then,
\* when rows were deleted, the row count for the log (get_record_count).
RetentionDays == 3
cleanup_old_data(s, utcNow) ==
    LET trimmed == delete_data_older_than_days(s, RetentionDays, utcNow)
    IN  trimmed \cup
        {Outcome(o.columns, o.rows, o.known_tags, FALSE, TRUE) :
            o \in {t \in trimmed : t.ok /\ DOMAIN t.rows # DOMAIN s.rows}}

\* parse_tagdb_current_row over the rows of the TagDatabase table: row i, of
\* tag name names[i] and value i, read at current_time; the name is trimmed.
SnapshotRecords(names, current_time) ==
    [i \in 1..Len(names) |->
        [tag_name |-> Trim(names[i]), timestamp |-> current_time, value |-> i]]

\* SELECT DISTINCT [TagName] over the rows of the TagDatabase table
DistinctNames(names) == {names[i] : i \in 1..Len(names)}

\* The chunk loop of initial_load: data.chunks(max_memory_records), each chunk
\* through convert_and_insert_wide, stopping at the first error.
RECURSIVE LoadChunks(_, _, _)
LoadChunks(s, data, size) ==
    IF data = <<>> THEN {Outcome(s.columns, s.rows, s.known_tags, TRUE, FALSE)}
    ELSE LET n == IF size < Len(data) THEN size ELSE Len(data)
             rest == SubSeq(data, n + 1, Len(data))
         IN  UNION {IF o.ok THEN LoadChunks(o, rest, size) ELSE {o} :
                       o \in convert_and_insert_wide(s, SubSeq(data, 1, n))}

\* latest_timestamp after the chunk loop: the timestamp of the last record
LatestOf(data, before) == IF data = <<>> THEN before ELSE data[Len(data)].timestamp

\* LoadAfterDetect with the bug of running the retention trim although the
\* handling of the tag changes failed
LoadAfterDetectTrimmingAnyway(s, changes, utcNow) ==
    LET handled == IF changes.added_tags # {}
                   THEN handle_tag_changes(s, changes.added_tags, changes.removed_tags)
                   ELSE {Outcome(s.columns, s.rows, s.known_tags, TRUE, FALSE)}
        before == IF changes.added_tags # {} THEN <<"handle_tag_changes">> ELSE <<>>
        trimmed == UNION {cleanup_old_data(h, utcNow) : h \in {x \in handled : x.ok}}
        anyway == UNION {cleanup_old_data(h, utcNow) : h \in {x \in handled : ~x.ok}}
    IN  {[out |-> [t EXCEPT !.ok = FALSE], error |-> "tag_handling",
          calls |-> before \o <<"trim">>] : t \in anyway}
        \cup {[out |-> t, error |-> "retention_trim", calls |-> before \o <<"trim">>] :
                 t \in {x \in trimmed : ~x.ok}}
        \cup {[out |-> [t EXCEPT !.ok = FALSE, !.injected = TRUE],
               error |-> "record_count", calls |-> before \o <<"trim">>] :
                 t \in {x \in trimmed : x.ok}}
        \cup {[out |-> t, error |-> "none", calls |-> before \o <<"trim">>] :
                 t \in {x \in trimmed : x.ok}}

\* Lines 120-133 of initial_load, once the detection has returned changes:
\* handle_tag_changes when tags were added, the retention trim, the row
\* count.  Each outcome with the step that failed ("none" when none did) and
\* the calls made on the store, in their order.
LoadAfterDetect(s, changes, utcNow) ==
    LET handled == IF changes.added_tags # {}
                   THEN handle_tag_changes(s, changes.added_tags, changes.removed_tags)
                   ELSE {Outcome(s.columns, s.rows, s.known_tags, TRUE, FALSE)}
        before == IF changes.added_tags # {} THEN <<"handle_tag_changes">> ELSE <<>>
        trimmed == UNION {cleanup_old_data(h, utcNow) : h \in {x \in handled : x.ok}}
    IN  {[out |-> h, error |-> "tag_handling", calls |-> before] :
            h \in {x \in handled : ~x.ok}}
        \cup {[out |-> t, error |-> "retention_trim", calls |-> before \o <<"trim">>] :
                 t \in {x \in trimmed : ~x.ok}}
        \cup {[out |-> [t EXCEPT !.ok = FALSE, !.injected = TRUE],
               error |-> "record_count", calls |-> before \o <<"trim">>] :
                 t \in {x \in trimmed : x.ok}}
        \cup {[out |-> t, error |-> "none", calls |-> before \o <<"trim">>] :
                 t \in {x \in trimmed : x.ok}}

\* Step 2 of update_cycle, once the detection has returned changes:
\* handle_tag_changes, then cleanup_removed_tag_data for the removed tags.
CycleAfterDetect(s, changes) ==
    LET cleaned(o) == IF changes.removed_tags # {}
                      THEN cleanup_removed_tag_data(o, changes.removed_tags)
                      ELSE {o}
    IN  IF changes.added_tags # {} \/ changes.removed_tags # {}
        THEN UNION {IF h.ok THEN cleaned(h) ELSE {h} :
                       h \in handle_tag_changes(s, changes.added_tags,
                                                changes.removed_tags)}
        ELSE {Outcome(s.columns, s.rows, s.known_tags, TRUE, FALSE)}

\* CycleAfterFetch with the bug of trimming only when the snapshot had records
CycleAfterFetchTrimmingOnData(s, latest_data, utcNow) ==
    UNION {LET written == (IF latest_data # <<>> THEN <<"add_columns">> ELSE <<>>)
                          \o (IF w.upsert THEN <<"upsert">> ELSE <<>>)
           IN  IF w.out.ok /\ latest_data # <<>>
               THEN {[out |-> o, appended |-> TRUE, at_upsert |-> w.at_upsert,
                      add_result |-> w.add_result,
                      calls |-> written \o <<"trim">>] :
                        o \in cleanup_old_data(w.out, utcNow)}
               ELSE {[out |-> w.out, appended |-> w.out.ok,
                      add_result |-> w.add_result,
                      at_upsert |-> w.at_upsert, calls |-> written]} :
              w \in AppendSteps(s, latest_data, utcNow)}

\* Steps 4 and 5 of update_cycle, once the snapshot query has returned
\* latest_data: a snapshot that is not empty is appended, an error returning
\* at once; then the retention trim.  Each outcome with the calls made on the
\* store, in their order.
CycleAfterFetch(s, latest_data, utcNow) ==
    UNION {LET written == (IF latest_data # <<>> THEN <<"add_columns">> ELSE <<>>)
                          \o (IF w.upsert THEN <<"upsert">> ELSE <<>>)
           IN  IF w.out.ok
               THEN {[out |-> o, appended |-> TRUE, at_upsert |-> w.at_upsert,
                      add_result |-> w.add_result,
                      calls |-> written \o <<"trim">>] :
                        o \in cleanup_old_data(w.out, utcNow)}
               ELSE {[out |-> w.out, appended |-> FALSE,
                      add_result |-> w.add_result,
                      at_upsert |-> w.at_upsert, calls |-> written]} :
              w \in AppendSteps(s, latest_data, utcNow)}

\* ------------------------------------------------------------- the state
VARIABLES
    columns,             \* the columns of ts_wide, the key column included
    rows,                \* the rows of ts_wide: key -> tag column -> value or NULL
    known_tags,          \* DatabaseManager.known_tags
    now,                 \* the clock read by Utc::now()
    tagdb,               \* the source's TagDatabase table: the tag name of each row
    max_memory_records,  \* config.batch.max_memory_records
    data_window_days,    \* config.data_window_days
    known_lock,          \* the mutex of known_tags and the callers of the manager
    phase,               \* where main is: Idle, InitialLoad, SteadyState, Shutdown, ...
    load_pc,             \* the await initial_load is at
    load_locals,         \* initial_load's locals: now and latest_timestamp
    last_seen_timestamp, \* SyncService.last_seen_timestamp of each of main's services
    update_pc,           \* the await the polling task is at
    status_pc,           \* the await the status task is at
    cycle_known,         \* update_cycle's local known_tags
    cycles,              \* history: the number of poll cycles started
    load_error,          \* history: the step at which initial_load failed
    observed,            \* history: the tags seen in a reading or a detection
    cycle_new,           \* history: the tags the running load or cycle saw first
    introduced,          \* history: the tags first seen by a load or cycle that succeeded
    lastOp,              \* history: the operation that ran last
    opCount,             \* history: the number of store operations so far
    tick_due,            \* the polling timer has fired and the tick is not yet taken
    retry                \* create_connection_with_retry: its locals and its history

storeVars == <<columns, rows, known_tags>>
svcVars == <<tagdb, max_memory_records, data_window_days, known_lock,
             phase, load_pc, load_locals,
             last_seen_timestamp, update_pc, status_pc, cycle_known, cycles,
             load_error, observed, cycle_new, introduced, tick_due, retry>>
vars == <<columns, rows, known_tags, now, tagdb, max_memory_records, data_window_days, known_lock,
          phase,
          load_pc, load_locals, last_seen_timestamp, update_pc, status_pc,
          cycle_known, cycles, load_error, observed, cycle_new, introduced,
          lastOp, opCount,
                   tick_due, retry>>

Store == [columns |-> columns, rows |-> rows, known_tags |-> known_tags]

\* ---------------------------------------------------------------- inputs
MaxOps == 3
MaxBatch == 2
MaxCycles == 2

TagA == <<"A">>
TagB == <<"B">>
TagBPadded == <<"B", " ">>
TagDot == <<"a", ".", "b">>
TagDash == <<"a", "-", "b">>
StoreTags == {TagA, TagDot, TagDash}
LoadTags == {TagA, TagB}

\* The clock starts on a whole second, the retention window and an hour after
\* the epoch of the model.
StartNow == RetentionDays * DayTicks + HourTicks

\* The instants readings carry: two of the same millisecond and one of the next,
\* three days before the start (where the retention cutoff falls).
ReadingBase == StartNow - RetentionDays * DayTicks
ReadingTimes == {ReadingBase, ReadingBase + 1, ReadingBase + TicksPerMs}

\* The batches of at most MaxBatch records, in the order of their timestamps
\* (the source queries ORDER BY [DateTime]); the i-th record of a batch carries
\* the value i, so that the readings of a batch are told apart.
BatchesOf(tags, times) ==
    UNION {{b \in [1..n -> [tag_name : tags, timestamp : times, value : 1..n]] :
               /\ \A i \in 1..n : b[i].value = i
               /\ \A i \in 1..(n - 1) : b[i].timestamp <= b[i + 1].timestamp} :
           n \in 1..MaxBatch}

BatchesAt(times) == BatchesOf(StoreTags, times)

ClockSteps == {1, DayTicks}

NoOp == [op |-> "none", records |-> <<>>, tags |-> {}, cutoff |-> 0,
         ok |-> TRUE, repeat |-> FALSE]

Services == {"load", "update", "status"}

\* The callers of the DatabaseManager main shares (Arc<DatabaseManager>): the
\* initial load and the polling task.  The mutex is free and no caller is
\* inside a method.
Callers == {"load", "update"}
LockFree == [holder |-> "none", code |-> [t \in Callers |-> <<>>],
             pc |-> [t \in Callers |-> 0]]

\* The state main starts from, but for the source and the configuration
DefaultDataWindowDays == 30
DefaultMaxRetries == 3
DefaultRetryIntervalSecs == 5

\* let mut last_error = None
NoError == [attempt |-> 0, kind |-> "none"]

\* create_connection_with_retry about to be called under a configuration
RetryStart(max_retries, retry_interval_secs) ==
    [max_retries |-> max_retries, retry_interval_secs |-> retry_interval_secs,
     pc |-> "idle", attempt |-> 0, last_error |-> NoError,
     attempts |-> 0, waits |-> 0, slept |-> 0, result |-> "none",
     waited_after |-> {}, errors |-> <<>>]

InitAt(start) ==
    /\ columns = {KeyColumn}
    /\ rows = <<>>
    /\ known_tags = {}
    /\ now = start
    /\ phase = "Idle"
    /\ load_pc = "none"
    /\ load_locals = [now |-> None, latest_timestamp |-> None, known_tags |-> {}]
    /\ last_seen_timestamp = [s \in Services |-> None]
    /\ update_pc = "not_spawned"
    /\ status_pc = "not_spawned"
    /\ cycle_known = {}
    /\ cycles = 0
    /\ load_error = "none"
    /\ observed = {}
    /\ cycle_new = {}
    /\ introduced = {}
    /\ lastOp = NoOp
    /\ opCount = 0
    /\ tick_due = FALSE
    /\ retry = RetryStart(DefaultMaxRetries, DefaultRetryIntervalSecs)

InitCommon ==
    /\ InitAt(StartNow)
    /\ data_window_days = DefaultDataWindowDays
    /\ known_lock = LockFree

\* ------------------------------------------- the store, operation by operation
InitStore ==
    /\ InitCommon
    /\ tagdb = <<>>
    /\ max_memory_records = MaxBatch

\* The outcomes of an operation while the store is available
Available(outcomes) == {o \in outcomes : ~o.injected}

\* The store after an operation's outcome o
Apply(o) ==
    /\ columns' = o.columns
    /\ rows' = o.rows
    /\ known_tags' = o.known_tags
    /\ opCount' = opCount + 1

ConvertAndInsertWide ==
    /\ opCount < MaxOps
    /\ \E records \in BatchesAt(ReadingTimes) :
       \E o \in Available(convert_and_insert_wide(Store, records)) :
          /\ Apply(o)
          /\ lastOp' = [op |-> "convert", records |-> records, tags |-> {},
                        cutoff |-> 0, ok |-> o.ok,
                        repeat |-> lastOp.op = "convert" /\ lastOp.ok
                                   /\ lastOp.records = records]
    /\ UNCHANGED <<now, svcVars>>

AppendLatestTagdbData ==
    /\ opCount < MaxOps
    /\ \E records \in BatchesAt({now}) :
       \E o \in Available(append_latest_tagdb_data(Store, records, now)) :
          /\ Apply(o)
          /\ lastOp' = [op |-> "append", records |-> records, tags |-> {},
                        cutoff |-> 0, ok |-> o.ok, repeat |-> FALSE]
    /\ UNCHANGED <<now, svcVars>>

HandleTagChanges ==
    /\ opCount < MaxOps
    /\ \E source_names \in SUBSET StoreTags :
       LET d == detect_tag_changes(source_names, known_tags)
       IN  \E o \in Available(handle_tag_changes(Store, d.added_tags, d.removed_tags)) :
              /\ Apply(o)
              /\ lastOp' = [op |-> "handle", records |-> <<>>, tags |-> source_names,
                            cutoff |-> 0, ok |-> o.ok, repeat |-> FALSE]
    /\ UNCHANGED <<now, svcVars>>

CleanupRemovedTagData ==
    /\ opCount < MaxOps
    /\ \E removed \in SUBSET StoreTags :
       \E o \in Available(cleanup_removed_tag_data(Store, removed)) :
          /\ Apply(o)
          /\ lastOp' = [op |-> "cleanup", records |-> <<>>, tags |-> removed,
                        cutoff |-> 0, ok |-> o.ok, repeat |-> FALSE]
    /\ UNCHANGED <<now, svcVars>>

DeleteDataBeforeTime ==
    /\ opCount < MaxOps
    /\ \E cutoff \in ReadingTimes \cup {ReadingBase + TicksPerMs + 1} :
       \E o \in Available(delete_data_before_time(Store, cutoff)) :
          /\ Apply(o)
          /\ lastOp' = [op |-> "trim", records |-> <<>>, tags |-> {},
                        cutoff |-> cutoff, ok |-> o.ok, repeat |-> FALSE]
    /\ UNCHANGED <<now, svcVars>>

DeleteDataOlderThanDays ==
    /\ opCount < MaxOps
    /\ \E o \in Available(delete_data_older_than_days(Store, RetentionDays, now)) :
          /\ Apply(o)
          /\ lastOp' = [op |-> "trim", records |-> <<>>, tags |-> {},
                        cutoff |-> CutoffOfDays(now, RetentionDays),
                        ok |-> o.ok, repeat |-> FALSE]
    /\ UNCHANGED <<now, svcVars>>

AdvanceClock ==
    /\ opCount < MaxOps
    /\ \E d \in ClockSteps : now' = now + d
    /\ opCount' = opCount + 1
    /\ lastOp' = NoOp
    /\ UNCHANGED <<storeVars, svcVars>>

NextStore ==
    \/ ConvertAndInsertWide
    \/ AppendLatestTagdbData
    \/ HandleTagChanges
    \/ CleanupRemovedTagData
    \/ DeleteDataBeforeTime
    \/ DeleteDataOlderThanDays
    \/ AdvanceClock

SpecStore == InitStore /\ [][NextStore]_vars

\* ------------------------------------------------------ the service
InitialLookbackHours == 1
UpdateIntervalSecs == 60

\* The tables the source's TagDatabase can hold
SourceTables == {<<>>, <<TagA>>, <<TagA, TagBPadded>>, <<TagBPadded>>}

\* The instants the records of the history window carry once parse_tagdb_row
\* has taken eight hours off: the window is the hour before t.
HistoryTimes(t) ==
    LET start == t - (InitialLookbackHours + BeijingOffsetHours) * HourTicks
    IN  {start + 1, start + TicksPerMs}

\* The time from one start of a cycle to the next: the interval, or a long pause
TickSteps == {UpdateIntervalSecs * SecTicks, (RetentionDays + 1) * DayTicks}

\* The clock is followed up to one long pause and an interval for each cycle
ClockLimit ==
    StartNow + (RetentionDays + 1) * DayTicks + MaxCycles * UpdateIntervalSecs * SecTicks

Init ==
    /\ InitCommon
    /\ tagdb \in SourceTables
    /\ max_memory_records \in 1..MaxBatch

SetStore(o) ==
    /\ columns' = o.columns
    /\ rows' = o.rows
    /\ known_tags' = o.known_tags

\* The tags seen by the running load or cycle
Observe(tags) ==
    /\ observed' = observed \cup tags
    /\ cycle_new' = cycle_new \cup (tags \ observed)

Step(name, records, tags, ok) ==
    [op |-> name, records |-> records, tags |-> tags, cutoff |-> 0,
     ok |-> ok, repeat |-> FALSE]

\* A step of initial_load or update_cycle with the calls on the store it made, in their order,
\* and the columns the table had when the step began and when the INSERT
\* statements were executed
CycleStep(name, records, tags, ok, calls, at_upsert) ==
    [op |-> name, records |-> records, tags |-> tags, cutoff |-> 0,
     ok |-> ok, repeat |-> FALSE, calls |-> calls, at_start |-> columns,
     at_upsert |-> at_upsert]
\* LoadFailed with the bug of logging the error and starting the tasks all the same
LoadFailedContinuing(step) ==
    /\ phase' = "SteadyState"
    /\ load_pc' = "failed"
    /\ load_error' = step
    /\ update_pc' = "ticking"
    /\ status_pc' = "ticking"

\* initial_load returned Err at `step`: main logs it and returns the error
\* (main.rs 125-128); no task is spawned.
LoadFailed(step) ==
    /\ phase' = "Failed"
    /\ load_pc' = "failed"
    /\ load_error' = step
    /\ UNCHANGED <<update_pc, status_pc>>
\* Startup with the bug of spawning the polling task before the initial load
StartupSpawningFirst ==
    /\ phase = "Idle"
    /\ phase' = "InitialLoad"
    /\ load_pc' = "history"
    /\ load_locals' = [load_locals EXCEPT !.now = now]
    /\ columns' = {KeyColumn}
    /\ rows' = <<>>
    /\ known_tags' = {}
    /\ update_pc' = "ticking"
    /\ lastOp' = Step("startup", <<>>, {}, TRUE)
    /\ UNCHANGED <<now, tagdb, max_memory_records, data_window_days, known_lock,
                   last_seen_timestamp,
                   status_pc, cycle_known, cycles, load_error, observed, cycle_new,
                   introduced, opCount,
                   tick_due, retry>>

\* main.rs 79-125: the database file is deleted and ts_wide created, the
\* source is probed, the service built, and initial_load reads the clock and
\* sends the history query.  A failure before initial_load ends the process.
Startup ==
    /\ phase = "Idle"
    /\ \/ /\ phase' = "InitialLoad"
          /\ load_pc' = "history"
          /\ load_locals' = [load_locals EXCEPT !.now = now]
          /\ columns' = {KeyColumn}
          /\ rows' = <<>>
          /\ known_tags' = {}
       \/ /\ phase' = "Failed"
          /\ UNCHANGED <<load_pc, load_locals, storeVars>>
    /\ lastOp' = Step("startup", <<>>, {}, phase' = "InitialLoad")
    /\ UNCHANGED <<now, tagdb, max_memory_records, data_window_days, known_lock,
                   last_seen_timestamp, update_pc,
                   status_pc, cycle_known, cycles, load_error, observed, cycle_new,
                   introduced, opCount,
                   tick_due, retry>>

\* initial_load 52-83: load_data_in_range returns; the history goes through
\* the chunk loop; the snapshot query is sent.
LoadHistoryDone ==
    /\ phase = "InitialLoad" /\ load_pc = "history"
    /\ \/ /\ LoadFailed("history_fetch")
          /\ lastOp' = Step("load_history", <<>>, {}, FALSE)
          /\ UNCHANGED <<storeVars, load_locals, observed, cycle_new>>
       \/ \E history \in {<<>>} \cup BatchesOf(LoadTags, HistoryTimes(load_locals.now)) :
          \E o \in LoadChunks(Store, history, max_memory_records) :
             /\ SetStore(o)
             /\ Observe(AllTags(history))
             /\ lastOp' = Step("load_history", history, {}, o.ok)
             /\ IF o.ok
                THEN /\ load_pc' = "snapshot"
                     /\ load_locals' = [load_locals EXCEPT !.latest_timestamp =
                                           LatestOf(history, @)]
                     /\ UNCHANGED <<phase, load_error, update_pc, status_pc>>
                ELSE /\ LoadFailed("chunk_upsert")
                     /\ UNCHANGED load_locals
    /\ UNCHANGED <<now, tagdb, max_memory_records, data_window_days, known_lock,
                   last_seen_timestamp, cycle_known,
                   cycles, introduced, opCount,
                   tick_due, retry>>

\* initial_load 82-117: get_latest_tagdb_data returns; the snapshot goes
\* through the chunk loop; the cursor is set; the known tags are read and the
\* detection query is sent.
LoadSnapshotDone ==
    /\ phase = "InitialLoad" /\ load_pc = "snapshot"
    /\ \/ /\ LoadFailed("snapshot_fetch")
          /\ lastOp' = Step("load_snapshot", <<>>, {}, FALSE)
          /\ UNCHANGED <<storeVars, load_locals, observed, cycle_new,
                         last_seen_timestamp>>
       \/ LET tagdb_data == SnapshotRecords(tagdb, now)
          IN  \E o \in LoadChunks(Store, tagdb_data, max_memory_records) :
                 /\ SetStore(o)
                 /\ Observe(AllTags(tagdb_data))
                 /\ lastOp' = Step("load_snapshot", tagdb_data, {}, o.ok)
                 /\ IF o.ok
                    THEN LET latest == LatestOf(tagdb_data, load_locals.latest_timestamp)
                         IN  /\ load_pc' = "detect"
                             /\ load_locals' = [load_locals EXCEPT
                                                  !.latest_timestamp = latest,
                                                  !.known_tags = o.known_tags]
                             /\ last_seen_timestamp' =
                                   [last_seen_timestamp EXCEPT !["load"] =
                                       IF latest # None THEN latest ELSE load_locals.now]
                             /\ UNCHANGED <<phase, load_error, update_pc, status_pc>>
                    ELSE /\ LoadFailed("snapshot_upsert")
                         /\ UNCHANGED <<load_locals, last_seen_timestamp>>
    /\ UNCHANGED <<now, tagdb, max_memory_records, data_window_days, known_lock,
                   cycle_known, cycles, introduced,
                   opCount,
                   tick_due, retry>>

\* initial_load 117-142 and main.rs 125-171: detect_tag_changes returns; the
\* added tags are handled, the retention trim runs, the rows are counted;
\* initial_load returns Ok and main spawns the polling task and the status
\* task, each on a SyncService of its own.
LoadDetectDone ==
    /\ phase = "InitialLoad" /\ load_pc = "detect"
    /\ \/ /\ LoadFailed("tag_detection")
          /\ lastOp' = CycleStep("load_detect", <<>>, {}, FALSE, <<>>, {})
          /\ UNCHANGED <<storeVars, observed, cycle_new, introduced>>
       \/ LET changes == detect_tag_changes(DistinctNames(tagdb), load_locals.known_tags)
          IN  \E r \in LoadAfterDetect(Store, changes, now) :
                 /\ SetStore(r.out)
                 /\ Observe(changes.current_tags)
                 /\ lastOp' = CycleStep("load_detect", <<>>, changes.removed_tags,
                                        r.out.ok, r.calls, {})
                 /\ IF r.out.ok
                    THEN /\ load_pc' = "done"
                         /\ phase' = "SteadyState"
                         /\ update_pc' = "ticking"
                         /\ status_pc' = "ticking"
                         /\ introduced' = introduced \cup cycle_new'
                         /\ UNCHANGED load_error
                    ELSE /\ LoadFailed(r.error)
                         /\ UNCHANGED introduced
    /\ UNCHANGED <<now, tagdb, max_memory_records, data_window_days, known_lock,
                   load_locals, last_seen_timestamp,
                   cycle_known, cycles, opCount,
                   tick_due, retry>>

\* The source's TagDatabase table changes
SourceChange ==
    /\ phase \in {"InitialLoad", "SteadyState"}
    /\ \E t \in SourceTables \ {tagdb} : tagdb' = t
    /\ UNCHANGED <<storeVars, now, max_memory_records, data_window_days, known_lock,
                   phase, load_pc, load_locals,
                   last_seen_timestamp, update_pc, status_pc, cycle_known, cycles,
                   load_error, observed, cycle_new, introduced, lastOp, opCount,
                   tick_due, retry>>

\* update_cycle with the bug of ending the polling loop when a cycle fails
CycleReturnedStopping(ok) == update_pc' = IF ok THEN "ticking" ELSE "stopped"

\* start_periodic_update 153-160: update_cycle has returned; an Err is logged
\* and the loop goes on to await the next tick as after an Ok.
CycleReturned(ok) == update_pc' = "ticking"

\* start_periodic_update 155 and update_cycle 165-172: the timer ticks, the
\* cycle reads the known tags and sends the detection query.
UpdateTick ==
    /\ update_pc = "ticking"
    /\ cycles < MaxCycles
    /\ \E d \in TickSteps : d <= ClockLimit - now /\ now' = now + d
    /\ cycles' = cycles + 1
    /\ cycle_known' = known_tags
    /\ update_pc' = "detect"
    /\ cycle_new' = {}
    /\ tick_due' = FALSE
    /\ lastOp' = [op |-> "tick", records |-> <<>>, tags |-> {}, cutoff |-> 0,
                  ok |-> TRUE, repeat |-> FALSE,
                  after_error |-> (lastOp.op \in {"cycle_detect", "cycle_fetch"}
                                      /\ ~lastOp.ok)]
    /\ UNCHANGED <<storeVars, tagdb, max_memory_records, data_window_days, known_lock,
                   phase, load_pc, load_locals,
                   last_seen_timestamp, status_pc, load_error, observed, introduced,
                   opCount, retry>>

\* TimerFires with the bug of running the tick's cycle at once, alongside the
\* cycle in progress
TimerFiresStartingCycle ==
    /\ update_pc \in {"detect", "fetch"}
    /\ ~tick_due
    /\ cycles < MaxCycles
    /\ cycles' = cycles + 1
    /\ cycle_known' = known_tags
    /\ update_pc' = "detect"
    /\ UNCHANGED <<storeVars, now, tagdb, max_memory_records, data_window_days, known_lock,
                   phase, load_pc,
                   load_locals, last_seen_timestamp, status_pc, load_error, observed,
                   cycle_new, introduced, lastOp, opCount, tick_due, retry>>

\* start_periodic_update 149-159: the interval's next deadline passes while
\* update_cycle is still awaited; nothing awaits the timer, the tick is due.
TimerFires ==
    /\ update_pc \in {"detect", "fetch"}
    /\ ~tick_due
    /\ tick_due' = TRUE
    /\ UNCHANGED <<storeVars, now, tagdb, max_memory_records, data_window_days, known_lock,
                   phase, load_pc,
                   load_locals, last_seen_timestamp, update_pc, status_pc,
                   cycle_known, cycles, load_error, observed, cycle_new, introduced,
                   lastOp, opCount, retry>>

\* update_cycle 172-199: detect_tag_changes returns; the changes are handled
\* and the columns of the removed tags cleaned; the snapshot query is sent.
\* An error ends the cycle: the loop logs it and awaits the next tick.
CycleDetectDone ==
    /\ update_pc = "detect"
    /\ \/ /\ CycleReturned(FALSE)
          /\ lastOp' = CycleStep("cycle_detect", <<>>, {}, FALSE, <<>>, {})
          /\ UNCHANGED <<storeVars, observed, cycle_new>>
       \/ LET changes == detect_tag_changes(DistinctNames(tagdb), cycle_known)
          IN  \E o \in CycleAfterDetect(Store, changes) :
                 /\ SetStore(o)
                 /\ Observe(changes.current_tags)
                 /\ lastOp' = CycleStep("cycle_detect", <<>>, changes.removed_tags,
                                        o.ok,
                                        IF changes.added_tags # {}
                                              \/ changes.removed_tags # {}
                                        THEN <<"handle_tag_changes">> ELSE <<>>,
                                        {})
                 /\ IF o.ok THEN update_pc' = "fetch" ELSE CycleReturned(FALSE)
    /\ UNCHANGED <<now, tagdb, max_memory_records, data_window_days, known_lock,
                   phase, load_pc, load_locals,
                   last_seen_timestamp, status_pc, cycle_known, cycles, load_error,
                   introduced, opCount,
                   tick_due, retry>>

\* CursorAfter with the bug of advancing the cursor before the upsert
CursorAfterFetch(cursor, latest_data, appended, utcNow) ==
    IF latest_data # <<>> THEN utcNow ELSE cursor

\* update_cycle 201-206: self.last_seen_timestamp = Some(Utc::now()), reached
\* when the snapshot is not empty and its append returned Ok
CursorAfter(cursor, latest_data, appended, utcNow) ==
    IF appended /\ latest_data # <<>> THEN utcNow ELSE cursor

\* update_cycle 199-219: get_latest_tagdb_data returns; a snapshot that is not
\* empty is appended and the cursor set to the current time; the retention
\* trim runs.  The loop then awaits the next tick, whatever the result.
CycleFetchDone ==
    /\ update_pc = "fetch"
    /\ \/ /\ CycleReturned(FALSE)
          /\ lastOp' = CycleStep("cycle_fetch", <<>>, {}, FALSE, <<>>, {})
                           @@ [add_result |-> "none"]
          /\ UNCHANGED <<storeVars, observed, cycle_new, introduced,
                         last_seen_timestamp>>
       \/ LET latest_data == SnapshotRecords(tagdb, now)
          IN  \E r \in CycleAfterFetch(Store, latest_data, now) :
              LET o == r.out
              IN
                 /\ SetStore(o)
                 /\ Observe(AllTags(latest_data))
                 /\ CycleReturned(o.ok)
                 /\ lastOp' = CycleStep("cycle_fetch", latest_data, {}, o.ok,
                                        r.calls, r.at_upsert)
                                  @@ [add_result |-> r.add_result]
                 /\ last_seen_timestamp' =
                       [last_seen_timestamp EXCEPT !["update"] =
                           CursorAfter(@, latest_data, r.appended, now)]
                 /\ introduced' = IF o.ok THEN introduced \cup cycle_new' ELSE introduced
    /\ UNCHANGED <<now, tagdb, max_memory_records, data_window_days, known_lock,
                   phase, load_pc, load_locals,
                   status_pc, cycle_known, cycles, load_error, opCount,
                   tick_due, retry>>

\* main.rs 174-180: the signal arrives; both tasks are aborted.  A task
\* suspended at an await is cancelled there; a cycle in progress may be inside a
\* call that does not yield, and is cancelled only when that call returns.
ShutdownSignal ==
    /\ phase = "SteadyState"
    /\ phase' = "Shutdown"
    /\ \/ update_pc' = "aborted"
       \/ update_pc \in {"detect", "fetch"} /\ update_pc' = "cancelling"
    /\ status_pc' = "aborted"
    /\ tick_due' = FALSE
    /\ lastOp' = Step("shutdown", <<>>, {}, TRUE)
    /\ UNCHANGED <<storeVars, now, tagdb, max_memory_records, data_window_days, known_lock,
                   load_pc, load_locals,
                   last_seen_timestamp, cycle_known, cycles, load_error, observed,
                   cycle_new, introduced, opCount, retry>>

\* The call the aborted cycle was inside returns and the task is cancelled at
\* its next await.
TaskCancelled ==
    /\ phase = "Shutdown"
    /\ update_pc = "cancelling"
    /\ update_pc' = "aborted"
    /\ UNCHANGED <<storeVars, now, tagdb, max_memory_records, data_window_days, known_lock,
                   phase, load_pc,
                   load_locals, last_seen_timestamp, status_pc, cycle_known, cycles,
                   load_error, observed, cycle_new, introduced, lastOp, opCount,
                   tick_due, retry>>

\* Stop with the bug of awaiting the handles without a timeout
StopAfterJoin ==
    /\ phase = "Shutdown"
    /\ update_pc = "aborted" /\ status_pc = "aborted"
    /\ phase' = "Stopped"
    /\ lastOp' = Step("stop", <<>>, {}, TRUE)
    /\ UNCHANGED <<storeVars, now, tagdb, max_memory_records, data_window_days, known_lock,
                   load_pc, load_locals,
                   last_seen_timestamp, update_pc, status_pc, cycle_known, cycles,
                   load_error, observed, cycle_new, introduced, opCount,
                   tick_due, retry>>

\* main.rs 183-192: the handles are awaited under a timeout of five seconds;
\* when both tasks are cancelled the wait ends, and when the timeout elapses
\* first a warning is logged; either way the service is stopped and main returns.
Stop ==
    /\ phase = "Shutdown"
    /\ phase' = "Stopped"
    /\ \/ /\ update_pc = "aborted" /\ status_pc = "aborted"
          /\ lastOp' = Step("stop", <<>>, {}, TRUE)
       \/ /\ update_pc = "cancelling"
          /\ lastOp' = Step("stop", <<>>, {}, FALSE)
    /\ UNCHANGED <<storeVars, now, tagdb, max_memory_records, data_window_days, known_lock,
                   load_pc, load_locals,
                   last_seen_timestamp, update_pc, status_pc, cycle_known, cycles,
                   load_error, observed, cycle_new, introduced, opCount,
                   tick_due, retry>>

Next ==
    \/ Startup
    \/ LoadHistoryDone
    \/ LoadSnapshotDone
    \/ LoadDetectDone
    \/ SourceChange
    \/ UpdateTick
    \/ TimerFires
    \/ CycleDetectDone
    \/ CycleFetchDone
    \/ ShutdownSignal
    \/ TaskCancelled
    \/ Stop

Spec == Init /\ [][Next]_vars

\* The service under one of its chunk sizes, started so late that every pause
\* between two cycles is the interval
LateStart == ClockLimit - MaxCycles * UpdateIntervalSecs * SecTicks
InitLive ==
    /\ InitAt(LateStart)
    /\ data_window_days = DefaultDataWindowDays
    /\ known_lock = LockFree
    /\ tagdb \in SourceTables
    /\ max_memory_records = MaxBatch

\* The steps of the polling task (start_periodic_update).  The runtime keeps
\* running the task: its timer fires as long as the task awaits it
\* (tokio::time::interval), and a step of a running cycle that can return
\* does return.  The wait of main for the handles ends, by the join or by the
\* timeout.
PollingTask == UpdateTick \/ CycleDetectDone \/ CycleFetchDone

SpecLive ==
    /\ InitLive /\ [][Next]_vars
    /\ WF_vars(PollingTask)
    /\ WF_vars(Stop)

\* ------------------------------------------------- claims about the store
\* The key under which the upsert op stores record i of its batch
StoredKey(op, i) ==
    IF op.op = "append" THEN FormatMs(now + BeijingOffsetHours * HourTicks)
    ELSE FormatMs(op.records[i].timestamp)

KeysWritten(op) == {StoredKey(op, i) : i \in 1..Len(op.records)}

\* The columns of the tags the batch of op supplies for the row of key k
SuppliedAt(op, k) ==
    {sanitize_column_name(op.records[i].tag_name) :
        i \in {j \in 1..Len(op.records) : StoredKey(op, j) = k}}

IsUpsert(op) == op.op \in {"convert", "append"} /\ op.ok

\* C1: applying convert_and_insert_wide a second time with the batch it was just
\* applied with succeeds and leaves the columns and the rows of the wide table
\* (keys, values, hence the row count) as the first application left them.
C1_IdempotentUpsert ==
    [][(lastOp'.op = "convert" /\ lastOp'.repeat)
          => (lastOp'.ok /\ rows' = rows /\ columns' = columns)]_vars

C1_Witness ==
    /\ lastOp.op = "convert" /\ lastOp.repeat /\ lastOp.ok
    /\ Len(lastOp.records) = 2
    /\ Cardinality(DOMAIN rows) = 2
    /\ opCount = 3

\* C2 (as claimed): an upsert leaves, in every row that existed before it, the
\* value of every tag column that the batch does not supply for that row's
\* timestamp as it was.
C2_UnsuppliedColumnsKept ==
    [][IsUpsert(lastOp')
          => \A k \in DOMAIN rows : \A c \in TagColumns(columns) :
                c \notin SuppliedAt(lastOp', k) => rows'[k][c] = rows[k][c]]_vars

\* C3 (as claimed): a row written by an upsert holds a non-null value in the
\* column of every tag known at that time, and 0.0 in the column of every known
\* tag the batch does not supply when the row's timestamp is new.
C3_KnownTagsNonNull ==
    [][IsUpsert(lastOp')
          => \A k \in KeysWritten(lastOp') : \A t \in known_tags' :
                LET c == sanitize_column_name(t)
                IN  /\ c \in TagColumns(columns')
                    /\ rows'[k][c] # NULL
                    /\ (k \notin DOMAIN rows /\ c \notin SuppliedAt(lastOp', k))
                          => rows'[k][c] = DefaultValue]_vars

\* C6 (as claimed): after a trim with cutoff C no row has a timestamp before C,
\* and every row not before C is there as it was.
C6_TrimRemovesAllBeforeCutoff ==
    [][(lastOp'.op = "trim" /\ lastOp'.ok)
          => /\ \A k \in DOMAIN rows' : ~(k < lastOp'.cutoff)
             /\ \A k \in DOMAIN rows :
                   ~(k < lastOp'.cutoff) => (k \in DOMAIN rows' /\ rows'[k] = rows[k])]_vars

\* ----------------------------------------------- claims about the service
\* C4: a tag first observed by a load or cycle that completed successfully has
\* its sanitized column in the wide table from then on, and no step ever
\* removes a column from the table.
C4_SchemaSuperset ==
    [][/\ columns \subseteq columns'
       /\ \A t \in introduced' : sanitize_column_name(t) \in columns']_vars

\* A second cycle has completed with the tag of the first load gone from the
\* source and known set, and a tag the cycles introduced: both columns exist.
C4_Witness ==
    /\ cycles = 2 /\ update_pc = "ticking" /\ lastOp.op = "cycle_fetch" /\ lastOp.ok
    /\ introduced = {TagA, TagB}
    /\ known_tags = {TagB}
    /\ {sanitize_column_name(TagA), sanitize_column_name(TagB)} \subseteq columns

\* C5 (as claimed): the cycle step that detects removed tags and handles them
\* leaves the column of each removed tag in the table and every value stored
\* in that column as it was.
C5_RemovedTagDataKept ==
    [][(lastOp'.op = "cycle_detect" /\ lastOp'.ok)
          => \A t \in lastOp'.tags :
                LET c == sanitize_column_name(t)
                IN  c \in TagColumns(columns)
                       => /\ c \in columns'
                          /\ \A k \in DOMAIN rows :
                                k \in DOMAIN rows' /\ rows'[k][c] = rows[k][c]]_vars

\* The cursor of the service that is doing the synchronisation: the one main
\* runs initial_load on, then the one the polling task owns.
SyncCursor ==
    IF phase \in {"Idle", "InitialLoad", "Failed"}
    THEN last_seen_timestamp["load"]
    ELSE last_seen_timestamp["update"]

\* C8 (as claimed): the cursor starts empty; once set it is never empty again
\* and never moves to an earlier value, from the initial load through every
\* poll cycle.
C8_CursorNeverRewinds ==
    [][SyncCursor # None => (SyncCursor' # None /\ SyncCursor' >= SyncCursor)]_vars

PhaseRank(p) ==
    CASE p = "Idle" -> 0
      [] p = "InitialLoad" -> 1
      [] p = "SteadyState" -> 2
      [] p = "Shutdown" -> 3
      [] OTHER -> 4

\* C9: the phases are passed in the order Idle, InitialLoad, SteadyState,
\* Shutdown, none entered twice and none but from the one before it;
\* initial_load starts once only, from Idle; a poll cycle starts only in
\* SteadyState after initial_load returned Ok.
C9_PhaseOrder ==
    [][/\ phase' # phase => PhaseRank(phase') > PhaseRank(phase)
       /\ (phase' = "SteadyState" /\ phase # "SteadyState")
             => (phase = "InitialLoad" /\ load_pc' = "done")
       /\ (phase' = "Shutdown" /\ phase # "Shutdown") => phase = "SteadyState"
       /\ (load_pc' = "history" /\ load_pc # "history")
             => (phase = "Idle" /\ load_pc = "none")
       /\ load_pc # "none" => load_pc' # "none"
       /\ cycles' > cycles => (phase = "SteadyState" /\ load_pc = "done")]_vars

\* The process has gone through every phase and run its poll cycles
C9_Witness ==
    /\ phase = "Stopped" /\ load_pc = "done" /\ cycles = 2
    /\ update_pc = "aborted" /\ DOMAIN rows # {}

LoadSteps == {"load_history", "load_snapshot", "load_detect"}

\* C10: when a step of initial_load fails, initial_load returns the error,
\* the process ends in failure, and the polling task is never spawned nor a
\* cycle run.
C10_LoadFailureIsFatal ==
    /\ (lastOp.op \in LoadSteps /\ ~lastOp.ok) => load_error # "none"
    /\ load_error # "none"
          => /\ phase = "Failed"
             /\ load_pc = "failed"
             /\ update_pc = "not_spawned"
             /\ status_pc = "not_spawned"
             /\ cycles = 0

\* The retention trim, the last but one step, failed with rows already stored
C10_Witness ==
    /\ load_error = "retention_trim" /\ phase = "Failed"
    /\ lastOp.op = "load_detect" /\ ~lastOp.ok
    /\ DOMAIN rows # {}

\* ------------------------------------------------ tag change detection
TagC == <<"C">>
TagAPadded == <<" ", "A">>
RawNames == {TagA, TagB, TagBPadded, TagAPadded}
DetectTags == {TagA, TagB, TagC}
MaxNames == 2

\* The TagName columns the source can hold, and the known sets detection
\* can be called with, each with the columns of its tags.
InitDetect ==
    /\ tagdb \in UNION {[1..n -> RawNames] : n \in 0..MaxNames}
    /\ known_tags \in SUBSET DetectTags
    /\ columns = {KeyColumn} \cup SanitizeAll(known_tags)
    /\ rows = <<>>
    /\ now = StartNow
    /\ max_memory_records = MaxBatch
    /\ data_window_days = DefaultDataWindowDays
    /\ known_lock = LockFree
    /\ phase = "SteadyState"
    /\ load_pc = "done"
    /\ load_locals = [now |-> None, latest_timestamp |-> None, known_tags |-> {}]
    /\ last_seen_timestamp = [s \in Services |-> None]
    /\ update_pc = "detect"
    /\ status_pc = "ticking"
    /\ cycle_known = known_tags
    /\ cycles = 0
    /\ load_error = "none"
    /\ observed = {}
    /\ cycle_new = {}
    /\ introduced = {}
    /\ lastOp = NoOp
    /\ opCount = 0
    /\ tick_due = FALSE
    /\ retry = RetryStart(DefaultMaxRetries, DefaultRetryIntervalSecs)

\* SqlServerDataSource::detect_tag_changes applied to the source's names and
\* the known set; the result is kept in lastOp.
DetectTagChanges ==
    /\ lastOp.op = "none"
    /\ lastOp' = [op |-> "detect",
                  changes |-> detect_tag_changes(DistinctNames(tagdb), cycle_known),
                  ok |-> TRUE]
    /\ UNCHANGED <<storeVars, now, tagdb, max_memory_records, data_window_days, known_lock,
                   phase, load_pc,
                   load_locals, last_seen_timestamp, update_pc, status_pc,
                   cycle_known, cycles, load_error, observed, cycle_new, introduced,
                   opCount,
                   tick_due, retry>>

NextDetect == DetectTagChanges

SpecDetect == InitDetect /\ [][NextDetect]_vars

\* The claim's relation between a detection's result and the sets `current`
\* and `known`
DeltaOf(changes, current, known) ==
    /\ changes.added_tags = current \ known
    /\ changes.removed_tags = known \ current
    /\ changes.current_tags = current
    /\ changes.added_tags \cap changes.removed_tags = {}
    /\ (known \cup changes.added_tags) \ changes.removed_tags = current

\* C7 (amended): with `current` the source's distinct tag names, each with
\* its surrounding whitespace trimmed, detect_tag_changes(known) returns
\* added = current \ known, removed = known \ current, current_tags = current;
\* added and removed are disjoint and (known \cup added) \ removed = current.
C7_DeltaOfTrimmedNames ==
    lastOp.op = "detect"
       => DeltaOf(lastOp.changes, {Trim(n) : n \in DistinctNames(tagdb)}, cycle_known)

\* A detection over names with and without padding that adds and removes
C7_Witness ==
    /\ lastOp.op = "detect"
    /\ tagdb = <<TagAPadded, TagBPadded>>
    /\ cycle_known = {TagA, TagC}
    /\ lastOp.changes.added_tags = {TagB}
    /\ lastOp.changes.removed_tags = {TagC}

\* C7 (as claimed): the same with `current` the source's distinct tag names
\* as they are stored.
C7_DeltaOfSourceNames ==
    lastOp.op = "detect"
       => DeltaOf(lastOp.changes, DistinctNames(tagdb), cycle_known)

\* ------------------------------------------------ claims about the loop
CycleSteps == {"cycle_detect", "cycle_fetch"}

\* C11: a cycle that returned an error leaves the loop awaiting the next
\* tick, and unless the shutdown signal arrives the next cycle is started
\* (for every cycle short of the last one followed).
C11_FailedCycleFollowed ==
    \A n \in 1..(MaxCycles - 1) :
        (cycles = n /\ lastOp.op \in CycleSteps /\ ~lastOp.ok /\ phase = "SteadyState")
           ~> ((cycles = n + 1 /\ update_pc = "detect") \/ phase # "SteadyState")

\* The second cycle has started on the tick after the first returned an error
C11_Witness ==
    /\ lastOp.op = "tick" /\ lastOp.after_error
    /\ cycles = 2 /\ update_pc = "detect" /\ phase = "SteadyState"

\* C12: a tick that falls due while a cycle is in progress starts nothing
\* and leaves the cycle where it is; a cycle starts only when the loop
\* awaits the timer, that is when no cycle is in progress, and one at a time.
C12_OneCycleAtATime ==
    [][/\ (tick_due' /\ ~tick_due) => (cycles' = cycles /\ update_pc' = update_pc)
       /\ cycles' > cycles => (update_pc = "ticking" /\ cycles' = cycles + 1
                                 /\ update_pc' = "detect")]_vars

\* The first cycle has finished with a tick fallen due while it ran
C12_Witness ==
    /\ tick_due /\ update_pc = "ticking" /\ cycles = 1
    /\ lastOp.op = "cycle_fetch" /\ lastOp.ok

\* ------------------------------------------------ claims about loading
StoreAfter == [columns |-> columns', rows |-> rows', known_tags |-> known_tags']

\* The value the batch holds for tag t at instant ts: that of a reading of
\* the batch, or the default when the batch has none.
BatchValueIs(records, ts, t, v) ==
    LET at == {i \in 1..Len(records) :
                  records[i].timestamp = ts /\ records[i].tag_name = t}
    IN  IF at = {} THEN v = DefaultValue ELSE \E i \in at : v = records[i].value

\* C13 (as claimed): a batch loaded into the empty store leaves one row for
\* each distinct timestamp of its readings, holding for every tag of the
\* batch the batch's value at that timestamp or 0.0; the row count is the
\* number of distinct timestamps and the latest timestamp the greatest of them.
C13_LoadIntoEmptyStore ==
    [][(lastOp'.op = "convert" /\ DOMAIN rows = {} /\ columns = {KeyColumn})
          => LET records == lastOp'.records
                 times == {records[i].timestamp : i \in 1..Len(records)}
             IN  /\ lastOp'.ok
                 /\ DOMAIN rows' = times
                 /\ \A ts \in times : \A t \in AllTags(records) :
                       BatchValueIs(records, ts, t, rows'[ts][sanitize_column_name(t)])
                 /\ get_record_count(StoreAfter) = Cardinality(times)
                 /\ \A r \in get_latest_timestamp(StoreAfter) :
                       r.ok /\ r.value = MaxOf(times)]_vars

\* ------------------------------------------------ column names
MaxNameLen == 3
NameChars == {"a", "1", "_", ".", "-"}
TagNames == UNION {[1..n -> NameChars] : n \in 0..MaxNameLen}

\* The variables no pure function reads, at rest
AtRest ==
    /\ rows = <<>>
    /\ now = StartNow
    /\ max_memory_records = MaxBatch
    /\ data_window_days = DefaultDataWindowDays
    /\ known_lock = LockFree
    /\ phase = "Idle"
    /\ load_pc = "none"
    /\ load_locals = [now |-> None, latest_timestamp |-> None, known_tags |-> {}]
    /\ last_seen_timestamp = [s \in Services |-> None]
    /\ update_pc = "not_spawned"
    /\ status_pc = "not_spawned"
    /\ cycle_known = {}
    /\ cycles = 0
    /\ load_error = "none"
    /\ observed = {}
    /\ cycle_new = {}
    /\ introduced = {}
    /\ lastOp = NoOp
    /\ opCount = 0
    /\ tick_due = FALSE

\* Two tag names of the source
InitSanitize ==
    /\ AtRest
    /\ tagdb \in [1..2 -> TagNames]
    /\ known_tags = {}
    /\ columns = {KeyColumn}
    /\ retry = RetryStart(DefaultMaxRetries, DefaultRetryIntervalSecs)

\* sanitize_column_name applied to each of the two names, and to the first
\* once more; the results are kept in lastOp.
SanitizeColumnNames ==
    /\ lastOp.op = "none"
    /\ lastOp' = [op |-> "sanitize",
                  result |-> [i \in 1..2 |-> sanitize_column_name(tagdb[i])],
                  again |-> sanitize_column_name(tagdb[1]),
                  ok |-> TRUE]
    /\ UNCHANGED <<storeVars, now, svcVars, opCount>>

NextSanitize == SanitizeColumnNames

SpecSanitize == InitSanitize /\ [][NextSanitize]_vars

\* The name with every character that is neither alphanumeric nor the
\* underscore replaced by the underscore
Underscored(name) ==
    [i \in 1..Len(name) |->
        IF name[i] \in Letters \cup Digits \cup {"_"} THEN name[i] ELSE "_"]

\* What the claim says of the identifier id derived from name
IsIdentifierOf(id, name) ==
    LET u == Underscored(name)
        kept == {i \in 1..Len(u) : u[i] # "_"}
        core == IF kept = {} THEN <<>>
                ELSE SubSeq(u, CHOOSE i \in kept : \A j \in kept : i <= j,
                               CHOOSE i \in kept : \A j \in kept : i >= j)
    IN  id = IF core = <<>> THEN UnknownTag
             ELSE IF core[1] \in Digits THEN TagPrefix \o core
             ELSE core

\* Two names that differ only in which non-alphanumeric character stands
\* at a position
SameButPunctuation(n1, n2) ==
    /\ Len(n1) = Len(n2)
    /\ \A i \in 1..Len(n1) :
          n1[i] = n2[i] \/ (n1[i] \notin Letters \cup Digits /\ n2[i] \notin Letters \cup Digits)

\* C14: the identifier of a name is the name with the characters other than
\* alphanumerics and underscore replaced by underscore, less its leading and
\* trailing underscores, prefixed with tag_ when that starts with a digit,
\* and unknown_tag when it is empty; the same name gives the same identifier
\* again, and so do two names alike but for their punctuation.
C14_SanitizedIdentifier ==
    lastOp.op = "sanitize"
       => /\ \A i \in 1..2 : IsIdentifierOf(lastOp.result[i], tagdb[i])
          /\ lastOp.again = lastOp.result[1]
          /\ SameButPunctuation(tagdb[1], tagdb[2])
                => lastOp.result[1] = lastOp.result[2]

\* Two names alike but for their punctuation, trimmed and prefixed
C14_Witness ==
    /\ lastOp.op = "sanitize"
    /\ tagdb = << <<".", "1", "a">>, <<"_", "1", "a">> >>
    /\ lastOp.result[1] = <<"t", "a", "g", "_", "1", "a">>
    /\ lastOp.result[2] = lastOp.result[1]

\* ------------------------------------------------ colliding names
\* The batch has two distinct tag names with one column identifier
HasCollision(records) ==
    \E t1, t2 \in AllTags(records) :
        t1 # t2 /\ sanitize_column_name(t1) = sanitize_column_name(t2)

\* C15 (as claimed): a batch with two distinct tag names of one column
\* identifier is stored without error, the column existing once and holding
\* in each row written a value the batch supplies for it.
C15_CollisionShared ==
    [][(lastOp'.op = "convert" /\ HasCollision(lastOp'.records))
          => /\ lastOp'.ok
             /\ \A i \in 1..Len(lastOp'.records) :
                   LET c == sanitize_column_name(lastOp'.records[i].tag_name)
                       k == StoredKey(lastOp', i)
                   IN  /\ c \in columns'
                       /\ k \in DOMAIN rows'
                       /\ rows'[k][c] # NULL]_vars

\* ------------------------------------------------ source rows
\* f64::is_finite of a source value
IsFinite(value) == value.class = "finite"

\* The TagVal of a row as parse_tagdb_row reads it: try_get::<f64>, and
\* try_get::<f32> widened when the column is not a float; NULL is None.
ReadValue(row) ==
    IF row.value.class = "null" THEN [some |-> FALSE, val |-> row.value]
    ELSE [some |-> TRUE, val |-> row.value]

\* unwrap_or(0.0), then 0.0 for what is not finite
FinalValue(row) ==
    LET read == ReadValue(row)
        val == IF read.some THEN read.val ELSE [class |-> "finite", num |-> 0]
    IN  IF IsFinite(val) THEN val.num ELSE 0

\* parse_tagdb_row with the bug of skipping the rows whose value is not finite
parse_tagdb_row_dropping(row) ==
    IF row.has_timestamp /\ row.has_tag /\ IsFinite(row.value)
    THEN [some |-> TRUE,
          record |-> [tag_name |-> Trim(row.tag_name),
                      timestamp |-> row.timestamp - BeijingOffsetHours * HourTicks,
                      value |-> FinalValue(row)]]
    ELSE [some |-> FALSE]

\* SqlServerDataSource::parse_tagdb_row: a row with timestamp and tag name
\* gives a reading, eight hours earlier, the name trimmed; any other is skipped.
parse_tagdb_row(row) ==
    IF row.has_timestamp /\ row.has_tag
    THEN [some |-> TRUE,
          record |-> [tag_name |-> Trim(row.tag_name),
                      timestamp |-> row.timestamp - BeijingOffsetHours * HourTicks,
                      value |-> FinalValue(row)]]
    ELSE [some |-> FALSE]

\* SqlServerDataSource::parse_tagdb_current_row: a row with a tag name gives
\* a reading at current_time.
parse_tagdb_current_row(row, current_time) ==
    IF row.has_tag
    THEN [some |-> TRUE,
          record |-> [tag_name |-> Trim(row.tag_name),
                      timestamp |-> current_time,
                      value |-> FinalValue(row)]]
    ELSE [some |-> FALSE]

SourceValues ==
    {[class |-> "finite", num |-> n] : n \in {1, 2}}
       \cup {[class |-> c, num |-> 0] : c \in {"null", "nan", "pos_inf", "neg_inf"}}

\* The rows a query of the source can return
SourceRows ==
    [has_timestamp : BOOLEAN, timestamp : {StartNow, StartNow + 1},
     has_tag : BOOLEAN, tag_name : {TagA, TagBPadded, TagAPadded},
     value : SourceValues, value_type : {"float", "real"}]

InitParse ==
    /\ AtRest
    /\ tagdb = <<>>
    /\ known_tags = {}
    /\ columns = {KeyColumn}
    /\ retry = RetryStart(DefaultMaxRetries, DefaultRetryIntervalSecs)

\* A row is parsed both ways; row and readings are kept in lastOp.
ParseRow ==
    /\ lastOp.op = "none"
    /\ \E row \in SourceRows :
          lastOp' = [op |-> "parse", row |-> row,
                     reading |-> parse_tagdb_row(row),
                     current |-> parse_tagdb_current_row(row, now),
                     ok |-> TRUE]
    /\ UNCHANGED <<storeVars, now, svcVars, opCount>>

NextParse == ParseRow

SpecParse == InitParse /\ [][NextParse]_vars

\* The value the claim gives the reading of a row
ClaimedValue(row) == IF row.value.class = "finite" THEN row.value.num ELSE 0

MaxRetries == 3
RetryIntervals == {1, DefaultRetryIntervalSecs}
ConnectErrors == {"refused", "timeout", "login"}

InitRetry ==
    /\ AtRest
    /\ tagdb = <<>>
    /\ known_tags = {}
    /\ columns = {KeyColumn}
    /\ retry \in {RetryStart(n, secs) : n \in 0..MaxRetries, secs \in RetryIntervals}

RetryFrame ==
    UNCHANGED <<storeVars, now, tagdb, max_memory_records, data_window_days, known_lock,
                phase, load_pc,
                load_locals, last_seen_timestamp, update_pc, status_pc, cycle_known,
                cycles, load_error, observed, cycle_new, introduced, lastOp, opCount,
                tick_due>>

\* create_connection_with_retry 61-64: the call enters the loop over
\* 1..=max_retries; with no attempt to make it falls through to
\* last_error.unwrap() on None and panics.
RetryCall ==
    /\ retry.pc = "idle"
    /\ retry' = IF retry.max_retries >= 1
                THEN [retry EXCEPT !.pc = "connecting", !.attempt = 1]
                ELSE [retry EXCEPT !.pc = "panicked"]
    /\ RetryFrame

\* create_connection_with_retry 65-71: create_connection returns a client,
\* which is returned.
ConnectOk ==
    /\ retry.pc = "connecting"
    /\ retry' = [retry EXCEPT !.pc = "returned", !.result = "ok",
                              !.attempts = @ + 1]
    /\ RetryFrame

\* ConnectErr with the bug of sleeping after the last attempt as well
ConnectErrAlwaysSleeping ==
    /\ retry.pc = "connecting"
    /\ \E e \in ConnectErrors :
          retry' = [retry EXCEPT !.pc = "sleeping", !.attempts = @ + 1,
                                !.errors = Append(@, e),
                                !.last_error = [attempt |-> retry.attempt, kind |-> e]]
    /\ RetryFrame

\* create_connection_with_retry 72-83: create_connection returns an error,
\* which is kept; before the last attempt the function goes to sleep, after
\* it the loop ends and the error kept is returned.
ConnectErr ==
    /\ retry.pc = "connecting"
    /\ \E e \in ConnectErrors :
          retry' = [retry EXCEPT
                      !.attempts = @ + 1,
                      !.errors = Append(@, e),
                      !.last_error = [attempt |-> retry.attempt, kind |-> e],
                      !.pc = IF retry.attempt < retry.max_retries
                             THEN "sleeping" ELSE "returned",
                      !.result = IF retry.attempt < retry.max_retries
                                 THEN @ ELSE "err"]
    /\ RetryFrame

\* create_connection_with_retry 77 and 64: the sleep of retry_interval_secs
\* ends and the loop goes on to the next attempt, or ends.
SleepDone ==
    /\ retry.pc = "sleeping"
    /\ retry' = [retry EXCEPT
                    !.waits = @ + 1,
                    !.slept = @ + retry.retry_interval_secs,
                    !.waited_after = @ \cup {retry.attempt},
                    !.attempt = IF retry.attempt < retry.max_retries THEN @ + 1 ELSE @,
                    !.pc = IF retry.attempt < retry.max_retries
                           THEN "connecting" ELSE "returned",
                    !.result = IF retry.attempt < retry.max_retries THEN @ ELSE "err"]
    /\ RetryFrame

NextRetry ==
    \/ RetryCall
    \/ ConnectOk
    \/ ConnectErr
    \/ SleepDone

SpecRetry == InitRetry /\ [][NextRetry]_vars

\* C17: with max_retries = N >= 1 there are at most N attempts; a wait
\* follows each failed attempt but the last, and lasts the interval; a
\* successful attempt is the last one made and its client is returned; after
\* N failures the error of the N-th attempt is returned.
C17_BoundedRetry ==
    retry.max_retries >= 1
       => /\ retry.attempts <= retry.max_retries
          /\ retry.pc # "panicked"
          /\ retry.waited_after \subseteq 1..(retry.max_retries - 1)
          /\ retry.waits = Cardinality(retry.waited_after)
          /\ retry.slept = retry.waits * retry.retry_interval_secs
          /\ retry.pc = "returned"
                => /\ retry.waits = retry.attempts - 1
                   /\ retry.result = "ok"
                         => retry.last_error.attempt = retry.attempts - 1
                   /\ retry.result = "err"
                         => /\ retry.attempts = retry.max_retries
                            /\ Len(retry.errors) = retry.max_retries
                            /\ retry.last_error =
                                  [attempt |-> retry.max_retries,
                                   kind |-> retry.errors[retry.max_retries]]
          /\ retry.result # "none" => retry.pc = "returned"

\* Three attempts have failed, with two waits, and the third error is returned
C17_Witness ==
    /\ retry.max_retries = 3 /\ retry.pc = "returned" /\ retry.result = "err"
    /\ retry.attempts = 3 /\ retry.waits = 2
    /\ retry.errors = <<"refused", "login", "timeout">>
    /\ retry.last_error = [attempt |-> 3, kind |-> "timeout"]

\* ------------------------------------------------ claims about shutdown
\* C18: once the shutdown signal has arrived the service reaches the stopped
\* state, whether or not the cycle in progress ever gets cancelled.
C18_ShutdownStops == (phase = "Shutdown") ~> (phase = "Stopped")

\* The service has stopped on the timeout, the cycle in progress still not
\* cancelled
C18_Witness ==
    /\ phase = "Stopped" /\ update_pc = "cancelling"
    /\ lastOp.op = "stop" /\ ~lastOp.ok

\* ------------------------------------------- claims about the cycle's order
\* The position of a call among the calls of a step, 0 when it was not made
CallAt(calls, name) ==
    IF \E i \in 1..Len(calls) : calls[i] = name
    THEN CHOOSE i \in 1..Len(calls) : calls[i] = name
    ELSE 0

\* C19: in a poll cycle, when the INSERT statements are executed every column
\* they list is a column of the table (the columns are added before), and the
\* retention trim is called only after the statements.
C19_SchemaThenWriteThenTrim ==
    (lastOp.op = "cycle_fetch" /\ CallAt(lastOp.calls, "upsert") > 0) =>
        /\ SanitizeAll(AllTags(lastOp.records)) \subseteq lastOp.at_upsert
        /\ CallAt(lastOp.calls, "add_columns") \in
              1..(CallAt(lastOp.calls, "upsert") - 1)
        /\ CallAt(lastOp.calls, "trim") > 0 =>
              CallAt(lastOp.calls, "trim") > CallAt(lastOp.calls, "upsert")

\* A cycle whose snapshot named a tag without a column: the column was added,
\* the row written and the trim run
C19_Witness ==
    /\ lastOp.op = "cycle_fetch" /\ lastOp.ok
    /\ lastOp.calls = <<"add_columns", "upsert", "trim">>
    /\ lastOp.at_upsert # lastOp.at_start
    /\ \E k \in DOMAIN rows : \E c \in lastOp.at_upsert \ lastOp.at_start :
          rows[k][c] # NULL

\* The last step of a poll cycle that has returned
CycleReturnedAt ==
    \/ lastOp.op = "cycle_fetch"
    \/ lastOp.op = "cycle_detect" /\ ~lastOp.ok

TrimCalls(calls) == {i \in 1..Len(calls) : calls[i] = "trim"}

\* C20 as stated: every poll cycle that was started calls the retention trim
\* exactly once, as its last call.
C20_EveryCycleTrimsLast ==
    CycleReturnedAt =>
        /\ lastOp.calls # <<>>
        /\ TrimCalls(lastOp.calls) = {Len(lastOp.calls)}

\* C20 as the code has it: a poll cycle calls the retention trim at most once
\* and as its last call; a cycle that returns Ok has called it, a cycle that
\* an earlier error ended has not.
C20_CompletedCycleTrimsLast ==
    CycleReturnedAt =>
        /\ TrimCalls(lastOp.calls) \subseteq {Len(lastOp.calls)}
        /\ lastOp.ok => TrimCalls(lastOp.calls) # {}
        /\ lastOp.op = "cycle_detect" => TrimCalls(lastOp.calls) = {}

\* A cycle whose snapshot was empty: nothing was written, the trim ran
C20_Witness ==
    /\ lastOp.op = "cycle_fetch" /\ lastOp.ok
    /\ lastOp.records = <<>>
    /\ lastOp.calls = <<"trim">>

\* ------------------------------------------------ the retention window
\* The configured windows: shorter than, equal to and longer than three days
WindowDays == {RetentionDays - 2, RetentionDays, RetentionDays + 2}

InitTrim ==
    /\ InitAt(StartNow)
    /\ tagdb = <<>>
    /\ max_memory_records = MaxBatch
    /\ data_window_days \in WindowDays
    /\ known_lock = LockFree

\* SyncService::cleanup_old_data, called on the store as it is
CleanupOldData ==
    /\ opCount < MaxOps
    /\ \E o \in Available(cleanup_old_data(Store, now)) :
          /\ Apply(o)
          /\ lastOp' = [op |-> "cleanup_old", records |-> <<>>, tags |-> {},
                        cutoff |-> CutoffOfDays(now, RetentionDays),
                        ok |-> o.ok, repeat |-> FALSE]
    /\ UNCHANGED <<now, svcVars>>

NextTrim ==
    \/ ConvertAndInsertWide
    \/ AdvanceClock
    \/ CleanupOldData

SpecTrim == InitTrim /\ [][NextTrim]_vars

\* C21: a retention trim deletes exactly the rows older than the current time
\* minus the configured window (data_window_days).
C21_TrimByConfiguredWindow ==
    [][(lastOp'.op = "cleanup_old" /\ lastOp'.ok) =>
          LET cutoff == FormatSec(CutoffOfDays(now, data_window_days))
          IN  DOMAIN rows' = {k \in DOMAIN rows : ~(k < cutoff)}]_vars

\* ------------------------------------------------ the cycle's fetch
\* SqlServerDataSource::get_latest_tagdb_data over a TagDatabase table given
\* with the DataTime of its rows: SELECT [TagName], [TagVal] of every row, read
\* at current_time.
get_latest_tagdb_data(table, current_time) ==
    SnapshotRecords([i \in 1..Len(table) |-> table[i].TagName], current_time)

\* SyncService::fetch_incremental_data: the whole table, whatever the cursor
fetch_incremental_data(table, last_seen, current_time) ==
    get_latest_tagdb_data(table, current_time)

\* The DataTime of the source's rows and the cursors: before, at and after
\* the start of the service, which is also a cursor
DataTimes == {StartNow - SecTicks, StartNow, StartNow + SecTicks}
TimedTables ==
    UNION {[1..n -> [TagName : LoadTags, DataTime : DataTimes]] : n \in 0..MaxBatch}

InitFetch ==
    /\ columns = {KeyColumn} /\ rows = <<>> /\ known_tags = {}
    /\ now = StartNow
    /\ max_memory_records = MaxBatch
    /\ data_window_days = DefaultDataWindowDays
    /\ known_lock = LockFree
    /\ phase = "SteadyState" /\ load_pc = "done"
    /\ load_locals = [now |-> None, latest_timestamp |-> None, known_tags |-> {}]
    /\ update_pc = "fetch" /\ status_pc = "ticking"
    /\ cycle_known = {} /\ cycles = 1 /\ load_error = "none"
    /\ observed = {} /\ cycle_new = {} /\ introduced = {}
    /\ lastOp = NoOp /\ opCount = 0 /\ tick_due = FALSE
    /\ retry = RetryStart(DefaultMaxRetries, DefaultRetryIntervalSecs)
    /\ tagdb \in TimedTables
    /\ \E cursor \in {None} \cup DataTimes :
          last_seen_timestamp = [s \in Services |->
                                   IF s = "update" THEN cursor ELSE None]

\* Step 3 of update_cycle: the fetch of the cycle, a clock's tick after the
\* latest DataTime
FetchIncrementalData ==
    /\ lastOp.op = "none"
    /\ now' = StartNow + SecTicks + 1
    /\ lastOp' = [op |-> "fetch", tags |-> {}, cutoff |-> 0, ok |-> TRUE,
                  repeat |-> FALSE,
                  records |-> fetch_incremental_data(tagdb,
                                  last_seen_timestamp["update"], now')]
    /\ UNCHANGED <<storeVars, tagdb, max_memory_records, data_window_days, known_lock, phase,
                   load_pc, load_locals, last_seen_timestamp, update_pc, status_pc,
                   cycle_known, cycles, load_error, observed, cycle_new, introduced,
                   opCount, tick_due, retry>>

NextFetch == FetchIncrementalData

SpecFetch == InitFetch /\ [][NextFetch]_vars

\* C22: the fetch of a cycle returns only readings of source rows newer than
\* the cursor, so that its result differs with the cursor.
C22_FetchBoundedByCursor ==
    (lastOp.op = "fetch" /\ last_seen_timestamp["update"] # None) =>
        LET newer == {i \in 1..Len(tagdb) :
                         tagdb[i].DataTime > last_seen_timestamp["update"]}
        IN  Len(lastOp.records) = Cardinality(newer)

\* ------------------------------------------------ the cursor in a cycle
\* C23: the cursor of the polling service changes only in the step of a cycle
\* that upserted a snapshot with records successfully, and then to the current
\* time; a cycle that fails in detection, tag handling, fetch or upsert leaves
\* it as it was.
C23_CursorMovesOnUpsertOnly ==
    [][/\ last_seen_timestamp'["update"] # last_seen_timestamp["update"] =>
             /\ lastOp'.op = "cycle_fetch"
             /\ lastOp'.records # <<>>
             /\ CallAt(lastOp'.calls, "upsert") > 0
             /\ CallAt(lastOp'.calls, "trim") > 0
             /\ last_seen_timestamp'["update"] = now
       /\ (lastOp'.op \in CycleSteps /\ ~lastOp'.ok
              /\ CallAt(lastOp'.calls, "trim") = 0) =>
             last_seen_timestamp'["update"] = last_seen_timestamp["update"]]_vars

\* A second cycle whose upsert failed: the cursor is the one the first cycle set
C23_Witness ==
    /\ lastOp.op = "cycle_fetch" /\ ~lastOp.ok
    /\ lastOp.records # <<>>
    /\ CallAt(lastOp.calls, "trim") = 0
    /\ last_seen_timestamp["update"] # None
    /\ last_seen_timestamp["update"] < now

\* ------------------------------------------------ the status task
\* SyncService::get_status on a service whose cursor is last_seen: the row
\* count and the latest timestamp are read from the store, an error of either
\* is returned; the cursor is the service's own field.
NoStatus ==
    [total_records |-> None, latest_timestamp |-> None,
     last_seen_timestamp |-> None, data_window_days |-> None,
     update_interval_secs |-> None]

get_status(s, last_seen, window_days) ==
    {[ok |-> FALSE, status |-> NoStatus]} \cup
    {IF r.ok
     THEN [ok |-> TRUE,
           status |-> [total_records |-> get_record_count(s),
                       latest_timestamp |-> r.value,
                       last_seen_timestamp |-> last_seen,
                       data_window_days |-> window_days,
                       update_interval_secs |-> UpdateIntervalSecs]]
     ELSE [ok |-> FALSE, status |-> NoStatus] : r \in get_latest_timestamp(s)}

\* main.rs 151-169: the status task's timer ticks and get_status is called on
\* the task's own SyncService; an Ok is logged, an Err dropped.
StatusTick ==
    /\ phase = "SteadyState"
    /\ status_pc = "ticking"
    /\ lastOp.op # "status"
    /\ \E r \in get_status(Store, last_seen_timestamp["status"], data_window_days) :
          lastOp' = [op |-> "status", records |-> <<>>, tags |-> {}, cutoff |-> 0,
                     ok |-> r.ok, repeat |-> FALSE, status |-> r.status]
    /\ UNCHANGED <<storeVars, now, tagdb, max_memory_records, data_window_days, known_lock,
                   phase,
                   load_pc, load_locals, last_seen_timestamp, update_pc, status_pc,
                   cycle_known, cycles, load_error, observed, cycle_new, introduced,
                   opCount, tick_due, retry>>

NextStatus == Next \/ StatusTick

\* The service with its status task, under one of its chunk sizes
SpecStatus == InitLive /\ [][NextStatus]_vars

\* The cursor as last set by the initial load or by a poll cycle
CursorLastSet ==
    IF last_seen_timestamp["update"] # None
    THEN last_seen_timestamp["update"]
    ELSE last_seen_timestamp["load"]

\* C24: a status snapshot of the status task reports the cursor as last set by
\* the initial load or a poll cycle, the number of rows and the greatest
\* timestamp of the store.
C24_StatusReportsCursor ==
    (lastOp.op = "status" /\ lastOp.ok) =>
        /\ lastOp.status.last_seen_timestamp = CursorLastSet
        /\ lastOp.status.total_records = Cardinality(DOMAIN rows)
        /\ lastOp.status.latest_timestamp =
              (IF DOMAIN rows = {} THEN None ELSE MaxOf(DOMAIN rows))

\* ------------------------------------------------ a start over a store in use
\* An earlier run of the service left rows in the database file: readings of
\* the hour before this start, written by convert_and_insert_wide.
EarlierRun ==
    /\ phase = "Idle"
    /\ lastOp.op = "none"
    /\ \E records \in BatchesOf(LoadTags, {now - HourTicks}) :
       \E o \in Available(convert_and_insert_wide(Store, records)) :
          /\ o.ok
          /\ SetStore(o)
          /\ lastOp' = Step("earlier_run", records, {}, TRUE)
    /\ UNCHANGED <<now, tagdb, max_memory_records, data_window_days, known_lock,
                   phase, load_pc,
                   load_locals, last_seen_timestamp, update_pc, status_pc,
                   cycle_known, cycles, load_error, observed, cycle_new, introduced,
                   opCount, tick_due, retry>>

\* The start of the process and its initial load
NextRestart ==
    \/ EarlierRun
    \/ SourceChange
    \/ Startup
    \/ LoadHistoryDone
    \/ LoadSnapshotDone
    \/ LoadDetectDone

SpecRestart == Init /\ [][NextRestart]_vars

\* C25: the start of the process and the steps of the initial load keep every
\* row of the store that is younger than the retention cutoff.
C25_StartKeepsStore ==
    [][(phase \in {"Idle", "InitialLoad"} /\ phase' \in {"InitialLoad", "SteadyState"}) =>
          \A k \in DOMAIN rows :
             ~(k < FormatSec(CutoffOfDays(now, RetentionDays))) => k \in DOMAIN rows']_vars

\* ------------------------------------------------ the order of the initial load
\* The step initial_load takes from each of its awaits
LoadOrder ==
    {<<"none", "history">>, <<"history", "snapshot">>, <<"snapshot", "detect">>,
     <<"detect", "done">>}

LoadStepAt ==
    [p \in {"history", "snapshot", "detect"} |->
        IF p = "history" THEN "load_history"
        ELSE IF p = "snapshot" THEN "load_snapshot" ELSE "load_detect"]

\* C26: initial_load goes from the history fetch and its upsert to the
\* snapshot fetch and its upsert, to the one detection, to the one retention
\* trim; it goes on only when the step before has succeeded, and the trim is
\* not called when the detection or the handling of its changes failed.
C26_LoadOrder ==
    [][load_pc' # load_pc =>
          /\ <<load_pc, load_pc'>> \in LoadOrder \/ load_pc' = "failed"
          /\ load_pc \in DOMAIN LoadStepAt => lastOp'.op = LoadStepAt[load_pc]
          /\ load_pc' \in {"snapshot", "detect", "done"} <=>
                (load_pc \in DOMAIN LoadStepAt /\ lastOp'.ok)
          /\ load_pc = "detect" =>
                /\ TrimCalls(lastOp'.calls) \subseteq {Len(lastOp'.calls)}
                /\ lastOp'.ok => TrimCalls(lastOp'.calls) # {}
                /\ load_error' \in {"tag_detection", "tag_handling"} =>
                      TrimCalls(lastOp'.calls) = {}]_vars

\* An initial load that stored the history and the snapshot, handled a tag
\* the detection found new, trimmed and returned Ok
C26_Witness ==
    /\ load_pc = "done" /\ lastOp.op = "load_detect" /\ lastOp.ok
    /\ lastOp.calls = <<"handle_tag_changes", "trim">>
    /\ Cardinality(DOMAIN rows) >= 2

\* C27: when initial_load returns Ok the known tags are the distinct tags of
\* the source as the load's detection returned them.
C27_BaselineIsSourceTags ==
    [][(load_pc = "detect" /\ load_pc' = "done") =>
          known_tags' = detect_tag_changes(DistinctNames(tagdb),
                                           load_locals.known_tags).current_tags]_vars

\* ------------------------------------------------ readings of one batch
\* The readings of a batch that fall on reading i's timestamp and tag (an
\* append puts every reading under the one current time)
SameCell(op, i) ==
    {j \in 1..Len(op.records) :
        /\ op.records[j].tag_name = op.records[i].tag_name
        /\ op.op = "append" \/ op.records[j].timestamp = op.records[i].timestamp}

\* C28: after a batch was written, the value stored for a timestamp and tag
\* that several of its readings carry is the value of the last of them.
C28_LastReadingWins ==
    IsUpsert(lastOp) =>
        \A i \in 1..Len(lastOp.records) :
           rows[StoredKey(lastOp, i)][sanitize_column_name(lastOp.records[i].tag_name)]
              = lastOp.records[MaxOf(SameCell(lastOp, i))].value

\* A batch of two readings of one timestamp and tag was written: the second
\* reading's value is stored
C28_Witness ==
    /\ lastOp.op = "convert" /\ lastOp.ok
    /\ Len(lastOp.records) = 2
    /\ SameCell(lastOp, 1) = {1, 2}
    /\ lastOp.records[1].value # lastOp.records[2].value
    /\ \E k \in DOMAIN rows : \E c \in DOMAIN rows[k] :
          rows[k][c] = lastOp.records[2].value

\* C29: a batch that was written has put each of its readings in the row of
\* the reading's own timestamp, and has made no row of another timestamp.
C29_RowsUnderReadingTimestamps ==
    [][IsUpsert(lastOp') =>
          LET carried == {lastOp'.records[i].timestamp : i \in 1..Len(lastOp'.records)}
          IN  /\ carried \subseteq DOMAIN rows'
              /\ (DOMAIN rows' \ DOMAIN rows) \subseteq carried]_vars

\* ------------------------------------------------ the mutex of known_tags
\* The statements on the store and the steps on the mutex of the manager's
\* methods, in the order the code has them.
IOSteps == {"get_connection", "DESCRIBE", "ALTER"}

\* add_columns_to_wide_table with the bug of holding the guard over the ALTER
\* loop
AddColumnsCodeHolding == <<"get_connection", "DESCRIBE", "lock", "insert", "ALTER", "unlock">>

\* add_columns_to_wide_table 306-338: the connection, DESCRIBE and its rows;
\* the block that locks, inserts the tags and drops the guard; the ALTER loop
AddColumnsCode == <<"get_connection", "DESCRIBE", "lock", "insert", "unlock", "ALTER">>

\* handle_tag_changes 153-188: for added tags add_columns_to_wide_table and
\* the block that locks and inserts; for removed tags the block that locks
\* and removes
HandleTagChangesCode(added, removed) ==
    (IF added THEN AddColumnsCode \o <<"lock", "insert", "unlock">> ELSE <<>>)
    \o (IF removed THEN <<"lock", "remove", "unlock">> ELSE <<>>)

\* get_known_tags 191-193: the guard is a temporary of the one expression
GetKnownTagsCode == <<"lock", "clone", "unlock">>

ManagerCalls ==
    ({GetKnownTagsCode, AddColumnsCode} \cup
     {HandleTagChangesCode(a, r) : a \in BOOLEAN, r \in BOOLEAN}) \ {<<>>}

InitLock ==
    /\ InitCommon
    /\ tagdb = <<>>
    /\ max_memory_records = MaxBatch

LockFrame ==
    UNCHANGED <<storeVars, now, tagdb, max_memory_records, data_window_days, phase,
                load_pc, load_locals, last_seen_timestamp, update_pc, status_pc,
                cycle_known, cycles, load_error, observed, cycle_new, introduced,
                opCount, tick_due, retry>>

\* A caller enters a method of the manager
ManagerCall(t) ==
    /\ known_lock.pc[t] = 0
    /\ \E code \in ManagerCalls :
          known_lock' = [known_lock EXCEPT !.code[t] = code, !.pc[t] = 1]
    /\ lastOp' = [op |-> "call", records |-> <<>>, tags |-> {}, cutoff |-> 0,
                  ok |-> TRUE, repeat |-> FALSE, caller |-> t, holding |-> FALSE]
    /\ LockFrame

\* A caller takes the next step of its method: lock() waits for the mutex to
\* be free, the end of the block drops the guard, the method returns after
\* its last step
ManagerStep(t) ==
    LET step == known_lock.code[t][known_lock.pc[t]]
        next == IF known_lock.pc[t] = Len(known_lock.code[t]) THEN 0
                ELSE known_lock.pc[t] + 1
    IN  /\ known_lock.pc[t] > 0
        /\ step = "lock" => known_lock.holder = "none"
        /\ known_lock' = [known_lock EXCEPT
                             !.pc[t] = next,
                             !.holder = IF step = "lock" THEN t
                                        ELSE IF step = "unlock" THEN "none" ELSE @]
        /\ lastOp' = [op |-> step, records |-> <<>>, tags |-> {}, cutoff |-> 0,
                      ok |-> TRUE, repeat |-> FALSE, caller |-> t,
                      holding |-> known_lock.holder = t]
        /\ LockFrame

CallerEnters == \E t \in Callers : ManagerCall(t)
CallerSteps == \E t \in Callers : ManagerStep(t)

NextLock == CallerEnters \/ CallerSteps

SpecLock == InitLock /\ [][NextLock]_vars

\* C30: no statement on the store is executed by a caller that holds the
\* mutex of known_tags, and the holder's next step is never such a statement;
\* the mutex is released before the method returns.
C30_NoIOUnderLock ==
    /\ lastOp.op \in IOSteps => ~lastOp.holding
    /\ \A t \in Callers :
          /\ known_lock.holder = t =>
                /\ known_lock.pc[t] > 0
                /\ known_lock.code[t][known_lock.pc[t]] \notin IOSteps
          /\ known_lock.pc[t] = 0 => known_lock.holder # t

\* One caller holds the mutex and inserts while the other, inside
\* add_columns_to_wide_table, is at its ALTER statements without the mutex
C30_Witness ==
    /\ known_lock.holder = "update"
    /\ known_lock.code["update"][known_lock.pc["update"]] = "insert"
    /\ known_lock.pc["load"] > 0
    /\ known_lock.code["load"][known_lock.pc["load"]] = "ALTER"

\* ------------------------------------------------- ensuring columns twice
\* add_columns_to_wide_table called on its own, as convert_and_insert_wide,
\* append_latest_tagdb_data and handle_tag_changes call it, between writes
AddColumnsToWideTable ==
    /\ opCount < MaxOps
    /\ \E tags \in SUBSET StoreTags :
       \E o \in Available(add_columns_to_wide_table(Store, tags)) :
          /\ Apply(o)
          /\ lastOp' = [op |-> "ensure", records |-> <<>>, tags |-> tags,
                        cutoff |-> 0, ok |-> o.ok,
                        repeat |-> lastOp.op = "ensure" /\ lastOp.ok
                                   /\ lastOp.tags = tags]
    /\ UNCHANGED <<now, svcVars>>

NextEnsure ==
    \/ ConvertAndInsertWide
    \/ AddColumnsToWideTable

SpecEnsure == InitStore /\ [][NextEnsure]_vars

RowsKept ==
    /\ DOMAIN rows' = DOMAIN rows
    /\ \A k \in DOMAIN rows : \A c \in TagColumns(columns) : rows'[k][c] = rows[k][c]

\* C32: when add_columns_to_wide_table fails, it was called once, the cycle
\* or load returns the error there (no INSERT statement, no trim, the cursor
\* not moved, a load ending main), and a load that leaves a tag of its
\* history without a column has failed.
C32_AddColumnFailureAborts ==
    [][/\ (update_pc = "fetch" /\ update_pc' = "ticking"
            /\ lastOp'.add_result = "Err") =>
             /\ ~lastOp'.ok
             /\ lastOp'.calls = <<"add_columns">>
             /\ RowsKept
             /\ last_seen_timestamp' = last_seen_timestamp
       /\ (load_error = "none" /\ load_error' = "tag_handling") =>
             /\ phase' = "Failed"
             /\ update_pc' = "not_spawned"
             /\ lastOp'.calls = <<"handle_tag_changes">>
             /\ RowsKept
       /\ (load_pc = "history" /\ load_pc' # "history"
            /\ ~(SanitizeAll(AllTags(lastOp'.records)) \subseteq columns')) =>
             /\ phase' = "Failed"
             /\ load_error' = "chunk_upsert"]_vars

\* A cycle whose append could not add the column of a new tag has returned
\* the error, the table holding rows
C32_Witness ==
    /\ lastOp.op = "cycle_fetch"
    /\ lastOp.add_result = "Err"
    /\ ~(SanitizeAll(AllTags(lastOp.records)) \subseteq columns)
    /\ DOMAIN rows # {}
    /\ update_pc = "ticking"

\* ------------------------------------------------- the cycle in flight at shutdown
\* C33: a poll cycle in flight (awaiting its detection or snapshot query) is
\* ended without having returned only by the expiry of the grace period, the
\* step from Shutdown to Stopped.
C33_InFlightCycleCompletes ==
    [][(update_pc \in {"detect", "fetch"} /\ update_pc' = "aborted") =>
          (phase = "Shutdown" /\ phase' = "Stopped")]_vars

\* ------------------------------------------------- the chunks of the history
\* C34: the table the history's chunk loop leaves is the table the same
\* history leaves when it goes through convert_and_insert_wide as one chunk.
C34_ChunkSizeIrrelevant ==
    (lastOp.op = "load_history" /\ lastOp.ok /\ lastOp.records # <<>>) =>
        \E o \in LoadChunks([columns |-> {KeyColumn}, rows |-> <<>>, known_tags |-> {}],
                             lastOp.records, Len(lastOp.records)) :
            o.ok /\ o.columns = columns /\ o.rows = rows

\* ------------------------------------------------- the known tags and the columns
\* C35: in every state, every tag of known_tags has its sanitized column in
\* ts_wide.
C35_KnownTagsHaveColumns ==
    \A t \in known_tags : sanitize_column_name(t) \in columns

\* ------------------------------------------------- a tag named as the key column
\* The tag names of the source (TagName is free text): a plain one, the name
\* of the key column, and that name followed by a dot
KeyTags == {TagA, KeyColumn, KeyColumn \o <<".">>}

\* convert_and_insert_wide over readings of those tags
ConvertKeyTags ==
    /\ opCount < MaxOps
    /\ \E records \in BatchesOf(KeyTags, ReadingTimes) :
       \E o \in Available(convert_and_insert_wide(Store, records)) :
          /\ Apply(o)
          /\ lastOp' = [op |-> "convert", records |-> records, tags |-> {},
                        cutoff |-> 0, ok |-> o.ok, repeat |-> FALSE]
    /\ UNCHANGED <<now, svcVars>>

NextKey == ConvertKeyTags

SpecKey == InitStore /\ [][NextKey]_vars

\* C36: no tag of a batch has the key column as its sanitized column, so the
\* INSERT statement of the batch lists the key column once.
C36_NoTagOnKeyColumn ==
    lastOp.op = "convert" =>
        \A t \in AllTags(lastOp.records) : sanitize_column_name(t) # KeyColumn

\* ------------------------------------------------- retries under any valid configuration
\* AppConfig::validate, as far as connection.max_retries is concerned: it
\* checks the database configuration, update_interval_secs, data_window_days
\* and db_file_path, and accepts every u32 as max_retries.
PassesValidation(max_retries) == max_retries \in Nat

\* C37: under every max_retries that passes validation, 0 included,
\* create_connection_with_retry never ends in a panic.
C37_AlwaysAResult ==
    PassesValidation(retry.max_retries) => retry.pc # "panicked"

\* ------------------------------------------------- the shape of an identifier
\* C38: the identifier of every name is not empty, is made of alphanumeric
\* characters and underscores, starts with no ASCII digit, and neither starts
\* nor ends with an underscore.
C38_IdentifierShape ==
    lastOp.op = "sanitize"
       => \A i \in 1..2 :
             LET id == lastOp.result[i]
             IN  /\ id # <<>>
                 /\ \A j \in 1..Len(id) : IsAlphanumeric(id[j]) \/ id[j] = "_"
                 /\ ~IsAsciiDigit(id[1])
                 /\ id[1] # "_"
                 /\ id[Len(id)] # "_"

\* A name of underscores around a digit has been prefixed, and the empty name
\* has been given the identifier unknown_tag
C38_Witness ==
    /\ lastOp.op = "sanitize"
    /\ tagdb = << <<"_", "1", "_">>, <<>> >>
    /\ lastOp.result[1] = <<"t", "a", "g", "_", "1">>
    /\ lastOp.result[2] = UnknownTag

=============================================================================
